---- MODULE Spec2Model ----
(***************************************************************************)
(* State-machine model of Atas.py: the meeting-minutes ("ata") service.    *)
(*                                                                         *)
(* Representation.  A Python str is a sequence of atoms; an atom is an     *)
(* indivisible run of characters (a literal piece of an f-string, a digit, *)
(* a user-supplied word).  The empty str is <<>> and " " is the whitespace  *)
(* atom.  A datetime.date is a record [year, month, day].  The text of a   *)
(* date field is a record [kind, y, m, d]: kind "iso" stands for the text  *)
(* "YYYY-MM-DD" with those numbers, kind "text" for any other text.  A     *)
(* table is the sequence of its rows in rowid order; a dict is a function. *)
(* Literal text is kept as written in the source, except that the typo-    *)
(* graphic quotes and dashes of the source are written with " and -.       *)
(***************************************************************************)
EXTENDS Integers, Sequences, FiniteSets, TLC

VARIABLES
    pc,             \* life cycle of the process: "import", "startup", "serving", "crashed"
    schema,         \* TRUE when the tables of the database file exist
    tb_meeting,     \* table meeting
    tb_scenario,    \* table scenario
    system_config,  \* table system_config, a function key -> value
    config,         \* state.config, the in-memory copy of system_config
    today,          \* the wall clock: date.today()
    static_files,   \* the names of the files in directory STATIC_DIR
    running,        \* the render handler that holds the event loop, or "none"
    snap,           \* local variables of the running handler: what it read
    doc,            \* the document of the latest render of the current inputs
    arg,            \* argument of the function under test
    ret,            \* its result
    active_connections,  \* manager.active_connections: user id -> set of sockets
    user_sessions,  \* manager.user_sessions: socket -> user id
    ws,             \* where the handler of each WebSocket is, and its user id
    broadcasts,     \* the broadcast each coroutine is running, with its iterators
    tasks,          \* the background tasks added to responses, not yet begun
    received        \* the latest update message sent successfully to each socket

vars == <<pc, schema, tb_meeting, tb_scenario, system_config, config, today,
          static_files, running, snap, doc, arg, ret, active_connections,
          user_sessions, ws, broadcasts, tasks, received>>

\* the WebSocket side of the process
net == <<active_connections, user_sessions, ws, broadcasts, received>>

---------------------------------------------------------------------------
(* Program constants                                                       *)

PARTICIPANTES ==
    << <<"Albert Iglésia Correa dos Santos Júnior">>,
       <<"Lucas José das Neves Rodrigues">>,
       <<"Mariana Schneider Viana">>,
       <<"Shirlene Pires Mesquita">>,
       <<"Tatiana Gasparini Silva Stelzer">> >>

CARGO == <<"Membro do Comitê de Investimentos">>

PARTICIPANTES_MULHERES ==
    { <<"Shirlene Pires Mesquita">>,
      <<"Mariana Schneider Viana">>,
      <<"Tatiana Gasparini Silva Stelzer">> }

STATIC_DIR == <<"static">>

HEADER_GAP == 12
TITLE_GAP == 6
SECTION_GAP == 12

\* datetime.MINYEAR and datetime.MAXYEAR: the years a date can hold.
MINYEAR == 1
MAXYEAR == 9999

---------------------------------------------------------------------------
(* Strings                                                                 *)

\* len(s): the characters of the atoms of s
RECURSIVE StrLen(_)
StrLen(s) == IF s = <<>> THEN 0 ELSE Len(Head(s)) + StrLen(Tail(s))

\* "".join(parts)
RECURSIVE Concat(_)
Concat(parts) ==
    IF parts = <<>> THEN <<>> ELSE Head(parts) \o Concat(Tail(parts))

\* sep.join(parts)
RECURSIVE Join(_, _)
Join(sep, parts) ==
    IF parts = <<>> THEN <<>>
    ELSE IF Len(parts) = 1 THEN parts[1]
    ELSE parts[1] \o sep \o Join(sep, Tail(parts))

RECURSIVE lstrip(_)
lstrip(s) ==
    IF s # <<>> /\ Head(s) = " " THEN lstrip(Tail(s)) ELSE s

RECURSIVE rstrip(_)
rstrip(s) ==
    IF s # <<>> /\ s[Len(s)] = " " THEN rstrip(SubSeq(s, 1, Len(s) - 1)) ELSE s

\* str.strip()
strip(s) == rstrip(lstrip(s))

\* needle occurs in hay as a contiguous run of atoms
Occurs(needle, hay) ==
    \E i \in 1..(Len(hay) - Len(needle) + 1) :
        SubSeq(hay, i, i + Len(needle) - 1) = needle

\* str(n) for n >= 0, one atom per digit
RECURSIVE Digits(_)
Digits(n) ==
    IF n < 10 THEN <<ToString(n)>> ELSE Digits(n \div 10) \o <<ToString(n % 10)>>

\* f"{n:0{w}d}": left-padded with zeros to at least w digits
RECURSIVE ZeroPad(_, _)
ZeroPad(s, w) == IF Len(s) >= w THEN s ELSE ZeroPad(<<"0">> \o s, w)

\* what a raised exception leaves in place of a str result
Raised == <<"!ValueError">>

---------------------------------------------------------------------------
(* Dates                                                                   *)

\* what a raised ValueError leaves in place of a date
ValueError == [year |-> 0, month |-> 0, day |-> 0]

IsLeap(y) == (y % 4 = 0) /\ ((y % 100 # 0) \/ (y % 400 = 0))

DaysInMonth(y, m) ==
    IF m = 2 THEN (IF IsLeap(y) THEN 29 ELSE 28)
    ELSE IF m \in {4, 6, 9, 11} THEN 30 ELSE 31

\* datetime.date(y, m, d): the constructor checks its arguments
date(y, m, d) ==
    IF /\ y \in MINYEAR..MAXYEAR
       /\ m \in 1..12
       /\ d \in 1..DaysInMonth(y, m)
    THEN [year |-> y, month |-> m, day |-> d]
    ELSE ValueError

\* date.fromisoformat(s)
fromisoformat(s) ==
    IF s.kind = "iso" THEN date(s.y, s.m, s.d) ELSE ValueError

\* d.isoformat()
isoformat(d) == [kind |-> "iso", y |-> d.year, m |-> d.month, d |-> d.day]

\* a date field holding text that is no ISO date, and one holding ""
NotADate == [kind |-> "text", y |-> 0, m |-> 0, d |-> 0]

EmptyDate == [kind |-> "empty", y |-> 0, m |-> 0, d |-> 0]

RECURSIVE DaysBeforeMonth(_, _)
DaysBeforeMonth(y, m) ==
    IF m = 1 THEN 0 ELSE DaysBeforeMonth(y, m - 1) + DaysInMonth(y, m - 1)

\* d.toordinal(): days since 0001-01-01, which is day 1
toordinal(d) ==
    LET y == d.year - 1
    IN  365 * y + (y \div 4) - (y \div 100) + (y \div 400)
        + DaysBeforeMonth(d.year, d.month) + d.day

\* d.weekday(): Monday is 0
weekday(d) == (toordinal(d) + 6) % 7

ptbr_date(d) ==
    ZeroPad(Digits(d.day), 2) \o <<"/">> \o ZeroPad(Digits(d.month), 2)
        \o <<"/">> \o Digits(d.year)

nomes ==
    <<"janeiro", "fevereiro", "março", "abril", "maio", "junho",
      "julho", "agosto", "setembro", "outubro", "novembro", "dezembro">>

mes_ano_pt(d) == <<nomes[d.month], " de ">> \o Digits(d.year)

menos_dois_meses_mut(d) ==
    LET m0 == d.month - 2
        m  == IF m0 <= 0 THEN m0 + 12 ELSE m0
    IN  date(d.year, m, IF d.day < 28 THEN d.day ELSE 28)

menos_dois_meses(d) ==
    LET m0  == d.month - 2
        m   == IF m0 <= 0 THEN m0 + 12 ELSE m0
        y   == IF m0 <= 0 THEN d.year - 1 ELSE d.year
        dia == IF d.day < 28 THEN d.day ELSE 28
    IN  date(y, m, dia)

\* the first Thursday of the month; the month starts on a valid date
primeira_quinta(ano, mes) ==
    LET d      == date(ano, mes, 1)
        offset == (3 - weekday(d)) % 7
    IN  date(ano, mes, 1 + offset)

---------------------------------------------------------------------------
(* Composition of the HTML document                                        *)

\* config.get(k, default) on state.config
cfg_get(k, default) == IF k \in DOMAIN config THEN config[k] ELSE default

EmptyDict == [k \in {} |-> <<>>]

\* s.split(sep)[0], sep being one atom
RECURSIVE SplitFirst(_, _)
SplitFirst(s, sep) ==
    IF s = <<>> \/ Head(s) = sep THEN <<>>
    ELSE <<Head(s)>> \o SplitFirst(Tail(s), sep)

\* the feminine prefix for every name that contains a name of the set
_prefixo_genero_contains(nome) ==
    IF \E f \in PARTICIPANTES_MULHERES : Occurs(f, nome)
    THEN <<"A Sra.">> ELSE <<"O Sr.">>

_prefixo_genero(nome) ==
    IF nome \in PARTICIPANTES_MULHERES THEN <<"A Sra.">> ELSE <<"O Sr.">>

\* the number as str(numero), without padding
numero_sessao_fmt_unpadded(numero, ano) ==
    Digits(numero) \o <<"/">> \o Digits(ano)

numero_sessao_fmt(numero, ano) ==
    ZeroPad(Digits(numero), 3) \o <<"/">> \o Digits(ano)

ORDINAIS ==
    <<"primeiro", "segundo", "terceiro", "quarto", "quinto",
      "sexto", "sétimo", "oitavo", "nono", "décimo",
      "décimo primeiro", "décimo segundo", "décimo terceiro",
      "décimo quarto", "décimo quinto", "décimo sexto",
      "décimo sétimo", "décimo oitavo", "décimo nono",
      "vigésimo", "vigésimo primeiro", "vigésimo segundo",
      "vigésimo terceiro", "vigésimo quarto", "vigésimo quinto",
      "vigésimo sexto", "vigésimo sétimo", "vigésimo oitavo",
      "vigésimo nono", "trigésimo", "trigésimo primeiro">>

\* strict lookup: ORDINAIS[day] raises KeyError outside the table
ordinal_dia_strict(day) ==
    IF day \in DOMAIN ORDINAIS THEN <<ORDINAIS[day]>> ELSE Raised

\* ORDINAIS.get(day, str(day))
ordinal_dia(day) ==
    IF day \in DOMAIN ORDINAIS THEN <<ORDINAIS[day]>> ELSE Digits(day)

\* scenarios.get(nome, {"text": "", "topic": ""}); scenarios is the dict built
\* from the rows of table scenario, in the order the rows were read
scenarios_get(scenarios, nome) ==
    IF \E i \in 1..Len(scenarios) : scenarios[i].participant = nome
    THEN LET i == CHOOSE j \in 1..Len(scenarios) : scenarios[j].participant = nome
         IN  [text |-> scenarios[i].text, topic |-> scenarios[i].topic]
    ELSE [text |-> <<>>, topic |-> <<>>]

\* a clause for every participant, whatever the text
item1_clause_always(scenarios, nome) ==
    LET row   == scenarios_get(scenarios, nome)
        texto == strip(row.text)
        tema  == strip(row.topic)
    IN  <<"<strong>">> \o _prefixo_genero(nome) \o <<" ">> \o nome
            \o <<"</strong>", " falando sobre ">> \o tema \o <<", ">>
            \o texto \o <<" ">>

\* one clause of item 1, or nothing when the participant's text is empty
item1_clause(scenarios, nome) ==
    LET row   == scenarios_get(scenarios, nome)
        texto == strip(row.text)
        tema  == strip(row.topic)
    IN  IF texto # <<>>
        THEN <<"<strong>">> \o _prefixo_genero(nome) \o <<" ">> \o nome
                 \o <<"</strong>", " falando sobre ">> \o tema \o <<", ">>
                 \o texto \o <<" ">>
        ELSE <<>>

item1_intro(m, d) ==
    <<"No ">> \o ordinal_dia(d.day) \o <<" dia do mês de ">>
        \o SplitFirst(mes_ano_pt(d), " de ")
        \o <<" do ano de ">> \o Digits(d.year) \o <<", às ">> \o m.hora
        \o <<" horas, na ">> \o m.local \o <<", ocorreu a ">> \o Digits(m.numero)
        \o <<"ª Reunião Ordinária dos Membros do Comitê de Investimentos.", " ">>

\* the clauses in the order of the rows read from the table
item1_stored_order(meeting, scenarios) ==
    IF meeting = <<>> THEN Raised
    ELSE LET m == meeting[1]
             d == fromisoformat(m.data)
         IN  IF d = ValueError THEN Raised
             ELSE <<"<p>">>
                  \o strip(item1_intro(m, d)
                       \o Concat([i \in 1..Len(scenarios) |->
                             item1_clause(scenarios, scenarios[i].participant)]))
                  \o <<"</p>">>

\* meeting is the dict of the latest row: a sequence of at most one record,
\* empty for {} (meeting["data"] then raises)
item1_single_paragraph(meeting, scenarios) ==
    IF meeting = <<>> THEN Raised
    ELSE LET m == meeting[1]
             d == fromisoformat(m.data)
         IN  IF d = ValueError THEN Raised
             ELSE <<"<p>">>
                  \o strip(item1_intro(m, d)
                       \o Concat([i \in 1..Len(PARTICIPANTES) |->
                             item1_clause(scenarios, PARTICIPANTES[i])]))
                  \o <<"</p>">>

item3_p0(mes_ano) ==
    <<"O Comitê de Investimentos, buscando transmitir maior transparência em relação às análises dos investimentos do Instituto e, em consequência, aderindo às normas do Pró-Gestão, elabora o \"Relatório de Análise de Investimentos IPAJM\". Este relatório já foi encaminhado à SCO - Subgerência de Contabilidade e Orçamento, para posterior envio para análise do Conselho Fiscal do IPAJM. Segue abaixo um resumo relativo aos itens abordados no Relatório supracitado de ">>
        \o mes_ano \o <<":">>

item3_p1(mes_ano, rentab, difpp, pos) ==
    <<"1) Acompanhamento da rentabilidade -  A rentabilidade consolidada dos investimentos do Fundo Previdenciário em ">>
        \o mes_ano \o <<" foi de ">> \o rentab \o <<", ficando ">> \o difpp
        \o <<" p.p. ">> \o pos \o <<" da meta atuarial.">>

item3_p2(risco) ==
    <<"2) Avaliação de risco da carteira - O grau de variação nas rentabilidades está coerente com o grau de risco assumido, em ">>
        \o risco \o <<".">>

item3_p3(mes_ano) ==
    <<"3) Execução da Política de Investimentos - As movimentações financeiras realizadas no mês de ">>
        \o mes_ano
        \o <<" estão de acordo com as deliberações estabelecidas com a Diretoria de Investimentos e com a legislação vigente.">>

item3_p4(ano) ==
    <<"4) Aderência a Política de Investimentos - Os recursos investidos, abrangendo a carteira consolidada, que representa o patrimônio total do RPPS sob gestão, estão aderentes à Política de Investimentos de ">>
        \o Digits(ano)
        \o <<", respeitando o estabelecido na legislação em vigor e dentro dos percentuais definidos.  Considerando que as taxas ainda são negociadas acima da meta atuarial, seguimos com a estratégia de alcançar o alvo definido de 60% de alocação em Títulos Públicos.">>

\* item 3 with the reference month taken from the wall clock
item3_html_today(meeting) ==
    IF meeting = <<>> THEN Raised
    ELSE LET m  == meeting[1]
             d  == fromisoformat(m.data)
             d2 == menos_dois_meses(today)
         IN  IF d = ValueError \/ d2 = ValueError THEN Raised
             ELSE LET mes_ano == mes_ano_pt(d2)
                      rentab  == cfg_get("resumo_rentab", <<>>)
                      difpp   == cfg_get("resumo_difpp", <<>>)
                      pos     == cfg_get("resumo_posicao", <<"abaixo">>)
                      risco   == cfg_get("resumo_risco", <<>>)
                  IN  Join(<<"\n">>,
                        << <<"<p><strong>">> \o item3_p0(mes_ano) \o <<"</strong></p>">>,
                           <<"<p>">> \o item3_p1(mes_ano, rentab, difpp, pos) \o <<"</p>">>,
                           <<"<p>">> \o item3_p2(risco) \o <<"</p>">>,
                           <<"<p>">> \o item3_p3(mes_ano) \o <<"</p>">>,
                           <<"<p>">> \o item3_p4(m.ano) \o <<"</p>">> >>)

item3_html(meeting) ==
    IF meeting = <<>> THEN Raised
    ELSE LET m  == meeting[1]
             d  == fromisoformat(m.data)
             d2 == IF d = ValueError THEN ValueError ELSE menos_dois_meses(d)
         IN  IF d2 = ValueError THEN Raised
             ELSE LET mes_ano == mes_ano_pt(d2)
                      rentab  == cfg_get("resumo_rentab", <<>>)
                      difpp   == cfg_get("resumo_difpp", <<>>)
                      pos     == cfg_get("resumo_posicao", <<"abaixo">>)
                      risco   == cfg_get("resumo_risco", <<>>)
                  IN  Join(<<"\n">>,
                        << <<"<p><strong>">> \o item3_p0(mes_ano) \o <<"</strong></p>">>,
                           <<"<p>">> \o item3_p1(mes_ano, rentab, difpp, pos) \o <<"</p>">>,
                           <<"<p>">> \o item3_p2(risco) \o <<"</p>">>,
                           <<"<p>">> \o item3_p3(mes_ano) \o <<"</p>">>,
                           <<"<p>">> \o item3_p4(m.ano) \o <<"</p>">> >>)

ITEM2_DEFAULT ==
    <<"Não houve realocações de recursos desde a última reunião até a presente data.">>

ASSUNTOS_DEFAULT == <<"- Assuntos gerais discutidos e/ou Eventos:">>

\* the default text, whatever was saved
current_item2_default == cfg_get("item2_default", ITEM2_DEFAULT)

\* the current free texts, as ata_html_full reads them from state.config
current_item2 == cfg_get("current_item2", cfg_get("item2_default", ITEM2_DEFAULT))

current_assuntos ==
    cfg_get("current_assuntos", cfg_get("assuntos_default", ASSUNTOS_DEFAULT))

presencas_html ==
    Join(<<"<br/>">>,
         [i \in 1..Len(PARTICIPANTES) |->
            <<"<strong>">> \o PARTICIPANTES[i] \o <<"</strong> - ">> \o CARGO \o <<";">>])

encerramento_html(lavrador) ==
    LET lav == strip(lavrador)
    IN  <<"<p>Nada mais havendo a tratar, foi encerrada a reunião e eu, ">>
        \o (IF lav # <<>> THEN <<"<strong>">> \o lav \o <<"</strong>">>
            ELSE <<"___________________________________">>)
        \o <<", lavrei a presente Ata, assinada pelos membros presentes do Comitê de Investimentos.</p>">>

assinaturas_html ==
    << <<"<p><strong>">> \o PARTICIPANTES[1]
           \o <<"</strong>&nbsp;&nbsp;&nbsp;&nbsp;&nbsp;&nbsp;<strong>">>
           \o PARTICIPANTES[2] \o <<"</strong><br/>">> \o CARGO
           \o <<"&nbsp;&nbsp;&nbsp;&nbsp;&nbsp;&nbsp;">> \o CARGO \o <<"</p>">>,
       <<"<p><strong>">> \o PARTICIPANTES[3]
           \o <<"</strong>&nbsp;&nbsp;&nbsp;&nbsp;&nbsp;&nbsp;<strong>">>
           \o PARTICIPANTES[4] \o <<"</strong><br/>">> \o CARGO
           \o <<"&nbsp;&nbsp;&nbsp;&nbsp;&nbsp;&nbsp;">> \o CARGO \o <<"</p>">>,
       <<"<p><strong>">> \o PARTICIPANTES[5] \o <<"</strong><br/>">> \o CARGO
           \o <<"</p>">> >>

header_html ==
    <<"<div style=\"width:100%; display:flex;\"><img src=\"">>
        \o STATIC_DIR \o <<"/", "brasao.png">>
        \o <<"\" style=\"height:42px\" alt=\"Brasão\"/><div>GOVERNO DO ESTADO DO ESPÍRITO SANTO<br/>INSTITUTO DE PREVIDÊNCIA DOS<br/>SERVIDORES DO ESTADO DO ESPÍRITO SANTO</div><img src=\"">>
        \o STATIC_DIR \o <<"/", "simbolo.png">>
        \o <<"\" style=\"height:42px\" alt=\"Símbolo\"/></div><div>IPAJM</div>">>

ata_html_full(meeting, scenarios) ==
    IF meeting = <<>> THEN Raised
    ELSE LET m     == meeting[1]
             d     == fromisoformat(m.data)
             item1 == item1_single_paragraph(meeting, scenarios)
             item3 == item3_html(meeting)
         IN  IF d = ValueError \/ item1 = Raised \/ item3 = Raised THEN Raised
             ELSE header_html \o Join(<<"\n">>,
                << <<"<p><strong>Sessão Ordinária nº ">>
                       \o numero_sessao_fmt(m.numero, m.ano) \o <<"</strong></p>">>,
                   <<"<p><strong>Data:</strong> ">> \o ptbr_date(d)
                       \o <<".<br/><strong>Hora:</strong> ">> \o m.hora
                       \o <<"h.<br/><strong>Local:</strong> ">> \o m.local \o <<".</p>">>,
                   <<"<p><strong>Presenças:</strong></p>">>,
                   <<"<p>">> \o presencas_html \o <<"</p>">>,
                   <<"<p><strong>Ordem do Dia:</strong></p>">>,
                   <<"<p>1. <strong>Cenário Político e Econômico Interno</strong> e <strong>Cenário Econômico Externo (EUA, Europa e China)</strong>;<br/>2. <strong>Movimentações e Aplicações financeiras</strong>;<br/>3. <strong>Acompanhamento dos Recursos Investidos</strong>;<br/>4. <strong>Assuntos Gerais</strong>.</p>">>,
                   <<"<p><strong>Item 01 - Cenário Político e Econômico Interno e Cenário Econômico Externo (EUA, Europa e China):</strong></p>">>,
                   item1,
                   <<"<p><strong>Item 02 - Movimentações e Aplicações financeiras</strong></p>">>,
                   <<"<p>">> \o current_item2 \o <<"</p>">>,
                   <<"<p><strong>Item 03 - Acompanhamento dos Recursos Investidos:</strong></p>">>,
                   item3,
                   <<"<p><strong>Item 04 - Assuntos Gerais</strong></p>">>,
                   <<"<p>">> \o current_assuntos \o <<"</p>">>,
                   encerramento_html(m.lavrador) >> \o assinaturas_html)

---------------------------------------------------------------------------
(* The PDF page and the DOCX document                                      *)

PDF_HEAD ==
    <<"<html><head><meta charset='utf-8'><style>body { font-family: Calibri, Arial, sans-serif; font-size: 11pt; color:#000; line-height: 1.4; margin: 20px; } .content { white-space: normal; text-align: justify; } p { margin: 6pt 0; } strong { font-weight: 700; }</style></head><body><div class=\"content\">">>

PDF_TAIL == <<"</div></body></html>">>

\* the page handed to pisa.CreatePDF
pdf_page(html_body) == PDF_HEAD \o html_body \o PDF_TAIL

\* a body composed without the scenario entries
export_pdf_body_no_scenarios(meeting, scenarios) == ata_html_full(meeting, <<>>)

\* html_body of export_pdf
export_pdf_body(meeting, scenarios) == ata_html_full(meeting, scenarios)

\* meeting.get(k, default) for the fields the exports read with a default
get_numero(meeting, default) == IF meeting = <<>> THEN default ELSE meeting[1].numero

get_ano(meeting, default) == IF meeting = <<>> THEN default ELSE meeting[1].ano

get_hora(meeting, default) == IF meeting = <<>> THEN default ELSE meeting[1].hora

get_local(meeting, default) == IF meeting = <<>> THEN default ELSE meeting[1].local

\* f"Ata_{numero:03d}-{ano}.{ext}"
filename_fmt(numero, ano, ext) ==
    <<"Ata_">> \o ZeroPad(Digits(numero), 3) \o <<"-">> \o Digits(ano)
        \o <<".", ext>>

\* a run and a paragraph of the DOCX document; space 0 stands for "not set"
Run(text, bold) == [text |-> text, bold |-> bold]

Para(runs, align, space_before, space_after) ==
    [runs |-> runs, align |-> align,
     space_before |-> space_before, space_after |-> space_after]

_add_paragraph(d, text, bold, align, space_after_pt) ==
    Append(d, Para(<<Run(text, bold)>>, align, 0, space_after_pt))

_add_label_value(d, label, value, space_after_pt) ==
    Append(d, Para(<<Run(label \o <<": ">>, TRUE), Run(value, FALSE)>>,
                   "LEFT", 0, space_after_pt))

_add_title(d, text, space_after_pt) ==
    _add_paragraph(d, text, TRUE, "LEFT", space_after_pt)

\* the image files the renderers look up in STATIC_DIR
AssetNames == {"brasao.png", "simbolo.png", "cabecalho.png"}

\* the header of a document, given by the path of the picture of its one
\* paragraph; <<>> is the header without a picture
HeaderPicture(path) == path

\* the picture is added without looking for the file: add_picture raises
\* when there is none
_add_header_image_unchecked(files) ==
    IF "cabecalho.png" \in files
    THEN HeaderPicture(STATIC_DIR \o <<"/", "cabecalho.png">>)
    ELSE Raised

\* what _add_header_image(doc) leaves in the header of the document: nothing
\* when the file does not exist, the picture paragraph otherwise
_add_header_image(files) ==
    IF "cabecalho.png" \notin files
    THEN <<>>
    ELSE HeaderPicture(STATIC_DIR \o <<"/", "cabecalho.png">>)

\* the date of the DOCX export taken from the wall clock
docx_date_today(meeting) == today

\* d of export_docx: the stored date, or today when the field is missing or ""
docx_date(meeting) ==
    IF meeting # <<>> /\ meeting[1].data.kind # "empty"
    THEN fromisoformat(meeting[1].data)
    ELSE today

\* the paragraphs of the body of the document export_docx saves; <<>> when
\* it raises
docx_document(meeting, scenarios) ==
    LET d == docx_date(meeting)
    IN  IF d = ValueError THEN <<>>
        ELSE LET numero_fmt ==
                     numero_sessao_fmt(get_numero(meeting, 1), get_ano(meeting, d.year))
                 titulo == Para(<<Run(<<"Sessão Ordinária nº ">> \o numero_fmt, TRUE)>>,
                                "LEFT", HEADER_GAP, TITLE_GAP)
                 d1 == <<titulo>>
                 d2 == _add_label_value(d1, <<"Data">>, ptbr_date(d), 0)
                 d3 == _add_label_value(d2, <<"Hora">>,
                                        get_hora(meeting, <<"14:00">>) \o <<"h">>, 0)
                 d4 == _add_label_value(d3, <<"Local">>,
                                        get_local(meeting, <<"A definir">>), SECTION_GAP)
                 d5 == _add_title(d4, <<"Presenças:">>, TITLE_GAP)
                 d6 == d5 \o [i \in 1..Len(PARTICIPANTES) |->
                                Para(<<Run(PARTICIPANTES[i], FALSE),
                                       Run(<<" - ">> \o CARGO \o <<";">>, FALSE)>>,
                                     "LEFT", 0, 0)]
                 d7 == _add_title(d6, <<"Ordem do Dia:">>, TITLE_GAP)
                 d8 == _add_paragraph(d7, <<"1. Cenário Político e Econômico Interno e Cenário Econômico Externo (EUA, Europa e China);">>, FALSE, "LEFT", 0)
                 d9 == _add_paragraph(d8, <<"2. Movimentações e Aplicações financeiras;">>, FALSE, "LEFT", 0)
                 d10 == _add_paragraph(d9, <<"3. Acompanhamento dos Recursos Investidos;">>, FALSE, "LEFT", 0)
             IN  _add_paragraph(d10, <<"4. Assuntos Gerais.">>, FALSE, "LEFT", SECTION_GAP)

\* the text of a DOCX document: its runs, paragraph after paragraph
docx_text(d) ==
    Concat([i \in 1..Len(d) |->
              Concat([j \in 1..Len(d[i].runs) |-> d[i].runs[j].text])])

---------------------------------------------------------------------------
(* The database and the state of the process                               *)

\* SELECT * FROM meeting ORDER BY id DESC LIMIT 1, as the dict the handlers
\* build from it: a sequence of at most one row
LatestMeeting ==
    IF tb_meeting = <<>> THEN <<>>
    ELSE LET i == CHOOSE j \in 1..Len(tb_meeting) :
                    \A k \in 1..Len(tb_meeting) : tb_meeting[k].id <= tb_meeting[j].id
         IN  <<tb_meeting[i]>>

MeetingRow(id, numero, ano, data, hora, local, lavrador) ==
    [id |-> id, numero |-> numero, ano |-> ano, data |-> data, hora |-> hora,
     local |-> local, lavrador |-> lavrador]

\* the rowid SQLite gives to a row inserted without one
NextId(table) ==
    IF table = <<>> THEN 1
    ELSE 1 + (CHOOSE n \in {table[i].id : i \in 1..Len(table)} :
                \A k \in 1..Len(table) : table[k].id <= n)

LOCAL_PADRAO == <<"Sala nº 408 do 4º andar do IPAJM">>

default_configs ==
    ("item2_default" :> ITEM2_DEFAULT) @@ ("assuntos_default" :> ASSUNTOS_DEFAULT)
        @@ ("auto_save_interval" :> <<"30">>)

\* INSERT OR IGNORE of every pair of new into a key -> value table
insert_or_ignore(table, new) ==
    [k \in (DOMAIN table) \cup (DOMAIN new) |->
        IF k \in DOMAIN table THEN table[k] ELSE new[k]]

\* INSERT OR REPLACE of every pair of new into a key -> value table
insert_or_replace(table, new) ==
    [k \in (DOMAIN table) \cup (DOMAIN new) |->
        IF k \in DOMAIN new THEN new[k] ELSE table[k]]

\* a plain INSERT: the row of the participant stays
scenario_insert(table, participant, text, topic) ==
    Append(table, [participant |-> participant, text |-> text, topic |-> topic])

\* INSERT OR REPLACE INTO scenario: the row of the participant is deleted and
\* the new row gets a fresh rowid, so it becomes the last row
scenario_replace(table, participant, text, topic) ==
    Append(SelectSeq(table, LAMBDA r : r.participant # participant),
           [participant |-> participant, text |-> text, topic |-> topic])

\* the meeting row is inserted without looking at COUNT(1)
ensure_schema_seeds_always ==
    /\ schema' = TRUE
    /\ tb_meeting' =
          LET hoje == today
              pq   == primeira_quinta(hoje.year, hoje.month)
          IN  Append(tb_meeting,
                     MeetingRow(NextId(tb_meeting), 4, hoje.year, isoformat(pq),
                                <<"14:00">>, LOCAL_PADRAO, <<>>))
    /\ tb_scenario' =
          IF Len(tb_scenario) = 0
          THEN [i \in 1..Len(PARTICIPANTES) |->
                  [participant |-> PARTICIPANTES[i], text |-> <<>>, topic |-> <<>>]]
          ELSE tb_scenario
    /\ system_config' = insert_or_ignore(system_config, default_configs)

\* the effect of ensure_schema on the three tables
ensure_schema ==
    /\ schema' = TRUE
    /\ tb_meeting' =
          IF Len(tb_meeting) = 0
          THEN LET hoje == today
                   pq   == primeira_quinta(hoje.year, hoje.month)
               IN  <<MeetingRow(NextId(tb_meeting), 4, hoje.year, isoformat(pq),
                                <<"14:00">>, LOCAL_PADRAO, <<>>)>>
          ELSE tb_meeting
    /\ tb_scenario' =
          IF Len(tb_scenario) = 0
          THEN [i \in 1..Len(PARTICIPANTES) |->
                  [participant |-> PARTICIPANTES[i], text |-> <<>>, topic |-> <<>>]]
          ELSE tb_scenario
    /\ system_config' = insert_or_ignore(system_config, default_configs)

\* the inputs of a composition: the session record, the scenario entries by
\* participant, the free texts and the summary parameters
InputsOf(meeting, scenarios) ==
    [meeting   |-> [i \in 1..Len(meeting) |->
                      [numero |-> meeting[i].numero, ano |-> meeting[i].ano,
                       data |-> meeting[i].data, hora |-> meeting[i].hora,
                       local |-> meeting[i].local, lavrador |-> meeting[i].lavrador]],
     scenarios |-> [nome \in {scenarios[i].participant : i \in 1..Len(scenarios)} |->
                      scenarios_get(scenarios, nome)],
     item2     |-> current_item2,
     assuntos  |-> current_assuntos,
     rentab    |-> cfg_get("resumo_rentab", <<>>),
     difpp     |-> cfg_get("resumo_difpp", <<>>),
     posicao   |-> cfg_get("resumo_posicao", <<"abaixo">>),
     risco     |-> cfg_get("resumo_risco", <<>>)]

Inputs == InputsOf(LatestMeeting, tb_scenario)

NoSnap == [meeting |-> <<>>, scenarios |-> <<>>]

NoDoc ==
    [by |-> "none", after |-> "none", inputs |-> <<>>, assets |-> {},
     html |-> <<>>, out |-> <<>>, header |-> <<>>, docx |-> <<>>,
     filename |-> <<>>]

\* doc is the latest document rendered from the current inputs: it is dropped
\* by the step that changes them
KeepDoc ==
    doc' = IF doc.by = "none" THEN doc
           ELSE IF doc.inputs = Inputs' THEN doc ELSE NoDoc

---------------------------------------------------------------------------
(* The WebSocket registry: class ConnectionManager                         *)

\* the WebSocket connections that are opened in a run, and the user id in the
\* path /ws/{user_id} of each: two tabs of one user and one of another
Sockets == {"w1", "w2", "w3"}

PathUser(websocket) == IF websocket = "w3" THEN "u2" ELSE "u1"

\* the coroutines that run a broadcast: the handler of each socket and the
\* background task of an HTTP response
Coroutines == Sockets \cup {"http"}

\* no broadcast is running in a coroutine
NoIter ==
    [state |-> "idle", msg |-> <<>>, exclude |-> "", dict_used |-> 0,
     visited_users |-> {}, cur |-> "", set_used |-> 0, visited |-> {},
     detached |-> FALSE, target |-> "", pending |-> {}]

\* a broadcast that ran to its end
IterDone == [NoIter EXCEPT !.state = "done"]

\* a broadcast ended by RuntimeError (dictionary changed size during
\* iteration, Set changed size during iteration), as it was left
IterError(it) == [it EXCEPT !.state = "error", !.target = ""]

\* The two loops of a broadcast over the live registry d.  The outer iterator
\* remembers the size of the dict at its creation, the inner one the size of
\* the set it iterates; each __next__ compares the size with the present one
\* before anything else.  The result is the set of places where the
\* broadcast can stop next: suspended at the send to one socket, at its end,
\* or ended by RuntimeError.  The order in which a set hands out its
\* elements is not fixed, nor is it modelled for the dict.
RECURSIVE OuterNext(_, _)
RECURSIVE InnerNext(_, _)
OuterNext(it, d) ==
    IF Cardinality(DOMAIN d) # it.dict_used THEN {IterError(it)}
    ELSE LET rest == (DOMAIN d) \ it.visited_users
         IN  IF rest = {} THEN {IterDone}
             ELSE UNION {
                 LET seen == [it EXCEPT !.visited_users = @ \cup {u}]
                 IN  IF u = it.exclude
                     THEN OuterNext(seen, d)
                     ELSE InnerNext([seen EXCEPT !.cur = u,
                                                 !.set_used = Cardinality(d[u]),
                                                 !.visited = {},
                                                 !.detached = FALSE], d)
                 : u \in rest }

InnerNext(it, d) ==
    IF it.detached \/ it.cur \notin DOMAIN d THEN {IterError(it)}
    ELSE IF Cardinality(d[it.cur]) # it.set_used THEN {IterError(it)}
    ELSE LET rest == d[it.cur] \ it.visited
         IN  IF rest = {} THEN OuterNext(it, d)
             ELSE {[it EXCEPT !.state = "send", !.target = t] : t \in rest}

\* broadcast_user_status / broadcast_update from its first statement to its
\* first suspension; exclude is "" for exclude_user=None.  Field pending is
\* not in the program: it holds the sockets that are registered under
\* another user id than exclude when the broadcast begins and to which it has
\* not yet sent.
Broadcast(msg, exclude, d) ==
    OuterNext([NoIter EXCEPT !.msg = msg, !.exclude = exclude,
                             !.dict_used = Cardinality(DOMAIN d),
                             !.pending = UNION {d[u] : u \in (DOMAIN d) \ {exclude}}],
              d)

\* no update message yet
NoMessage == [type |-> "none", origin |-> ""]

\* the message of broadcast_user_status, and the message a client sent,
\* marked with the user id of the socket it came in on
UserStatus == [type |-> "user_status", origin |-> ""]

ClientMessage(user_id) == [type |-> "client", origin |-> user_id]

\* ConnectionManager.connect, the two maps after its registration
connect_active(websocket, user_id) ==
    [u \in (DOMAIN active_connections) \cup {user_id} |->
        IF u = user_id
        THEN (IF u \in DOMAIN active_connections
              THEN active_connections[u] ELSE {}) \cup {websocket}
        ELSE active_connections[u]]

connect_sessions(websocket, user_id) ==
    [s \in (DOMAIN user_sessions) \cup {websocket} |->
        IF s = websocket THEN user_id ELSE user_sessions[s]]

\* ConnectionManager.disconnect, the two maps after it
disconnect_active(websocket) ==
    IF websocket \in DOMAIN user_sessions
    THEN LET user_id == user_sessions[websocket]
             left    == active_connections[user_id] \ {websocket}
         IN  [u \in IF left = {} THEN (DOMAIN active_connections) \ {user_id}
                    ELSE DOMAIN active_connections |->
                IF u = user_id THEN left ELSE active_connections[u]]
    ELSE active_connections

disconnect_sessions(websocket) ==
    [s \in (DOMAIN user_sessions) \ {websocket} |-> user_sessions[s]]

\* the set object a suspended broadcast iterates leaves the dict when its
\* user id is deleted: it is empty from then on, whatever is registered later
Detach(bs, d) ==
    [c \in DOMAIN bs |->
        IF bs[c].state = "send" /\ bs[c].cur \notin DOMAIN d
        THEN [bs[c] EXCEPT !.detached = TRUE]
        ELSE bs[c]]

\* the registry of a process that has just been started
NoSockets ==
    /\ active_connections = EmptyDict
    /\ user_sessions = EmptyDict
    /\ ws = [s \in Sockets |-> [at |-> "new", user |-> ""]]
    /\ broadcasts = [c \in Coroutines |-> NoIter]
    /\ tasks = <<>>
    /\ received = [s \in Sockets |-> NoMessage]

---------------------------------------------------------------------------
(* The life cycle of the process                                           *)

ClockStart == date(2025, 5, 1)

ClockLater == date(2025, 6, 10)

ClockDates == {ClockStart, ClockLater}

Init ==
    /\ pc = "import"
    /\ schema \in BOOLEAN
    /\ tb_meeting = <<>>
    /\ tb_scenario = <<>>
    /\ system_config = EmptyDict
    /\ config = EmptyDict
    /\ today = ClockStart
    /\ static_files = {}
    /\ NoSockets
    /\ running = "none"
    /\ snap = NoSnap
    /\ doc = NoDoc
    /\ arg = ValueError
    /\ ret = ValueError

\* the wall clock moves on
Tick ==
    /\ \E d \in ClockDates : toordinal(d) > toordinal(today) /\ today' = d
    /\ UNCHANGED <<pc, schema, tb_meeting, tb_scenario, system_config, config,
                   running, snap, doc, arg, ret, static_files, net, tasks>>

\* the in-memory copy is not filled from the table when the module is imported
load_config_empty ==
    /\ pc = "import"
    /\ IF schema
       THEN pc' = "startup" /\ config' = EmptyDict
       ELSE pc' = "crashed" /\ config' = config
    /\ UNCHANGED <<schema, tb_meeting, tb_scenario, system_config, today,
                   running, snap, doc, arg, ret, static_files, net, tasks>>

\* AppState.load_config, run by "state = AppState()" when the module is
\* imported: SELECT on a table that does not exist raises and the import fails
load_config ==
    /\ pc = "import"
    /\ IF schema
       THEN pc' = "startup" /\ config' = system_config
       ELSE pc' = "crashed" /\ config' = config
    /\ UNCHANGED <<schema, tb_meeting, tb_scenario, system_config, today,
                   running, snap, doc, arg, ret, static_files, net, tasks>>

on_startup ==
    /\ pc = "startup"
    /\ ensure_schema
    /\ pc' = "serving"
    /\ UNCHANGED <<config, today, running, snap, arg, ret, static_files, net, tasks>>
    /\ KeepDoc

\* the process ends and is started again; the database file stays
Restart ==
    /\ pc \in {"startup", "serving", "crashed"}
    /\ pc' = "import"
    /\ config' = EmptyDict
    /\ running' = "none"
    /\ snap' = NoSnap
    /\ active_connections' = EmptyDict
    /\ user_sessions' = EmptyDict
    /\ ws' = [s \in Sockets |->
                IF ws[s].at = "new" THEN ws[s] ELSE [ws[s] EXCEPT !.at = "closed"]]
    /\ broadcasts' = [c \in Coroutines |-> NoIter]
    /\ tasks' = <<>>
    /\ UNCHANGED <<schema, tb_meeting, tb_scenario, system_config, today, doc,
                   arg, ret, static_files, received>>

---------------------------------------------------------------------------
(* Request handlers                                                        *)

\* A handler is a coroutine on the single event loop of the process.  None of
\* the handlers below awaits between its first and its last statement, so a
\* handler that has begun holds the loop until it returns.
EventLoopFree_always == TRUE

EventLoopFree == running = "none"

\* Form(...): a required form field; FastAPI answers 422 to an empty one
\* before the handler is called
FormRequired(v) == v # <<>>

FormRequiredDate(v) == v.kind # "empty"

\* class MeetingUpdate
MeetingUpdate(numero, ano, data, hora, local, lavrador) ==
    /\ numero >= 1 /\ numero <= 9999
    /\ ano >= 2020 /\ ano <= 2050
    /\ StrLen(local) >= 1 /\ StrLen(local) <= 200

\* class ScenarioUpdate
ScenarioUpdate(participant, topic, text) ==
    /\ StrLen(participant) >= 1
    /\ StrLen(topic) >= 1
    /\ StrLen(text) <= 5000

\* the two texts have no maximum length
ItemUpdate_unbounded(item2, assuntos) == TRUE

\* class ItemUpdate
ItemUpdate(item2, assuntos) ==
    /\ StrLen(item2) <= 2000
    /\ StrLen(assuntos) <= 2000

\* re.match("^(abaixo|acima)$", s): "$" also matches before a final newline
regex_posicao(s) ==
    \E w \in {"abaixo", "acima"} : s = <<w>> \/ s = <<w, "\n">>

\* the three values are also required to be numbers
ResumoUpdate_numeric(rentab, difpp, posicao, risco) ==
    /\ \A v \in {rentab, difpp, risco} :
          v \in {<<>>, <<"1,23%">>, <<"0,15">>, <<"7,5%">>}
    /\ regex_posicao(posicao)

\* class ResumoUpdate
ResumoUpdate(rentab, difpp, posicao, risco) ==
    /\ StrLen(rentab) <= 20
    /\ StrLen(difpp) <= 20
    /\ regex_posicao(posicao)
    /\ StrLen(risco) <= 20

\* a row is always inserted
meeting_write_insert(table, numero, ano, data, hora, local, lavrador) ==
    Append(table, MeetingRow(NextId(table), numero, ano, data, hora, local, lavrador))

\* UPDATE of the latest row when there is one, INSERT otherwise
meeting_write(table, numero, ano, data, hora, local, lavrador) ==
    LET meeting_id == IF table = <<>> THEN 0
                      ELSE CHOOSE n \in {table[i].id : i \in 1..Len(table)} :
                              \A k \in 1..Len(table) : table[k].id <= n
    IN  IF meeting_id # 0
        THEN [i \in 1..Len(table) |->
                IF table[i].id = meeting_id
                THEN MeetingRow(meeting_id, numero, ano, data, hora, local, lavrador)
                ELSE table[i]]
        ELSE Append(table,
                    MeetingRow(NextId(table), numero, ano, data, hora, local, lavrador))

MaxTasks == 1

\* background_tasks.add_task(manager.broadcast_update, message)
add_task(message) == tasks' = Append(tasks, message)

\* the status of the response to POST /meeting/update: 422 from FastAPI for
\* an empty required field, 400 from the handler when MeetingUpdate raises
meeting_update_status(numero, ano, data, hora, local, lavrador) ==
    IF ~(FormRequiredDate(data) /\ FormRequired(hora) /\ FormRequired(local))
    THEN 422
    ELSE IF ~MeetingUpdate(numero, ano, data, hora, local, lavrador)
    THEN 400 ELSE 200

meeting_update(numero, ano, data, hora, local, lavrador) ==
    /\ pc = "serving"
    /\ EventLoopFree
    /\ Len(tasks) < MaxTasks
    /\ IF meeting_update_status(numero, ano, data, hora, local, lavrador) = 200
       THEN /\ tb_meeting' =
                  meeting_write(tb_meeting, numero, ano, data, hora, local, lavrador)
            /\ add_task([type |-> "meeting_update", origin |-> ""])
       ELSE UNCHANGED <<tb_meeting, tasks>>
    /\ UNCHANGED <<pc, schema, tb_scenario, system_config, config, today,
                   running, snap, arg, ret, static_files, net>>
    /\ KeepDoc

\* the status of the response to POST /scenario/save
scenario_save_status(participant, topic, text) ==
    IF ~(FormRequired(participant) /\ FormRequired(topic) /\ FormRequired(text))
    THEN 422
    ELSE IF ~ScenarioUpdate(participant, topic, text) THEN 400 ELSE 200

scenario_save(participant, topic, text) ==
    /\ pc = "serving"
    /\ EventLoopFree
    /\ Len(tasks) < MaxTasks
    /\ IF scenario_save_status(participant, topic, text) = 200
       THEN /\ tb_scenario' = scenario_replace(tb_scenario, participant, text, topic)
            /\ add_task([type |-> "scenario_update", origin |-> ""])
       ELSE UNCHANGED <<tb_scenario, tasks>>
    /\ UNCHANGED <<pc, schema, tb_meeting, system_config, config, today,
                   running, snap, arg, ret, static_files, net>>
    /\ KeepDoc

\* the status of the response to POST /preview/update
preview_update_status(item2, assuntos) ==
    IF ~(FormRequired(item2) /\ FormRequired(assuntos)) THEN 422
    ELSE IF ~ItemUpdate(item2, assuntos) THEN 400 ELSE 204

preview_update(item2, assuntos) ==
    /\ pc = "serving"
    /\ EventLoopFree
    /\ IF preview_update_status(item2, assuntos) = 204
       THEN LET new == ("current_item2" :> item2) @@ ("current_assuntos" :> assuntos)
            IN  /\ system_config' = insert_or_replace(system_config, new)
                /\ config' = insert_or_replace(config, new)
       ELSE UNCHANGED <<system_config, config>>
    /\ UNCHANGED <<pc, schema, tb_meeting, tb_scenario, today, running, snap,
                   arg, ret, static_files, net, tasks>>
    /\ KeepDoc

\* the status of the response to POST /resumo/update: every field has a
\* default, so every request reaches the handler
resumo_update_status(rentab, difpp, posicao, risco) ==
    IF ~ResumoUpdate(rentab, difpp, posicao, risco) THEN 400 ELSE 204

resumo_update(rentab, difpp, posicao, risco) ==
    /\ pc = "serving"
    /\ EventLoopFree
    /\ IF resumo_update_status(rentab, difpp, posicao, risco) = 204
       THEN LET resumo_config ==
                    ("resumo_rentab" :> rentab) @@ ("resumo_difpp" :> difpp)
                        @@ ("resumo_posicao" :> posicao) @@ ("resumo_risco" :> risco)
            IN  /\ system_config' = insert_or_replace(system_config, resumo_config)
                /\ config' = insert_or_replace(config, resumo_config)
       ELSE UNCHANGED <<system_config, config>>
    /\ UNCHANGED <<pc, schema, tb_meeting, tb_scenario, today, running, snap,
                   arg, ret, static_files, net, tasks>>
    /\ KeepDoc

---------------------------------------------------------------------------
(* Background tasks and WebSocket handlers                                 *)

\* a coroutine whose broadcast has returned runs no broadcast
Settle(it) == IF it.state = "done" THEN NoIter ELSE it

\* where the handler of a socket is once its broadcast has stopped at nx:
\* still in the broadcast, past it, or ended by the RuntimeError, which
\* "except WebSocketDisconnect" does not catch
Position(at, nx) ==
    IF nx.state = "send" THEN at
    ELSE IF nx.state = "error" THEN "failed"
    ELSE IF at = "leaving" THEN "closed" ELSE "receive"

\* the background task of a response begins: broadcast_update(message)
background ==
    /\ pc = "serving"
    /\ EventLoopFree
    /\ tasks # <<>>
    /\ broadcasts["http"].state # "send"
    /\ \E it \in Broadcast(Head(tasks), "", active_connections) :
          broadcasts' = [broadcasts EXCEPT !["http"] = Settle(it)]
    /\ tasks' = Tail(tasks)
    /\ UNCHANGED <<pc, schema, tb_meeting, tb_scenario, system_config, config,
                   today, running, snap, doc, arg, ret, static_files,
                   active_connections, user_sessions, ws, received>>

\* websocket_endpoint up to its first suspension after the registration:
\* manager.connect accepts, registers the socket in both maps and begins
\* broadcast_user_status
ws_connect(websocket, user_id) ==
    /\ pc = "serving"
    /\ EventLoopFree
    /\ ws[websocket].at = "new"
    /\ active_connections' = connect_active(websocket, user_id)
    /\ user_sessions' = connect_sessions(websocket, user_id)
    /\ \E it \in Broadcast(UserStatus, "", active_connections') :
          /\ broadcasts' = [broadcasts EXCEPT ![websocket] = Settle(it)]
          /\ ws' = [ws EXCEPT ![websocket] =
                       [at |-> Position("status", it), user |-> user_id]]
    /\ UNCHANGED <<pc, schema, tb_meeting, tb_scenario, system_config, config,
                   today, running, snap, doc, arg, ret, static_files, tasks,
                   received>>

\* what receive_text hands to the loop of websocket_endpoint: the text of a
\* JSON object, the text of another JSON value, a text that is no JSON, or
\* WebSocketDisconnect
Received == {"object", "array", "text", "disconnect"}

\* one turn of the loop of websocket_endpoint, from receive_text to the next
\* suspension
ws_receive(websocket, data) ==
    /\ pc = "serving"
    /\ EventLoopFree
    /\ ws[websocket].at = "receive"
    /\ CASE data = "object" ->
              \* broadcast_update(message, exclude_user=user_id)
              /\ \E it \in Broadcast(ClientMessage(ws[websocket].user),
                                     ws[websocket].user, active_connections) :
                    /\ broadcasts' = [broadcasts EXCEPT ![websocket] = Settle(it)]
                    /\ ws' = [ws EXCEPT ![websocket].at = Position("forward", it)]
              /\ UNCHANGED <<active_connections, user_sessions>>
         [] data = "disconnect" ->
              \* except WebSocketDisconnect: disconnect, broadcast_user_status
              /\ active_connections' = disconnect_active(websocket)
              /\ user_sessions' = disconnect_sessions(websocket)
              /\ \E it \in Broadcast(UserStatus, "", active_connections') :
                    /\ broadcasts' =
                          [Detach(broadcasts, active_connections')
                              EXCEPT ![websocket] = Settle(it)]
                    /\ ws' = [ws EXCEPT ![websocket].at = Position("leaving", it)]
         [] OTHER ->
              \* json.loads raises JSONDecodeError on "text"; message["timestamp"]
              \* = ... raises TypeError on "array": neither is caught
              /\ ws' = [ws EXCEPT ![websocket].at = "failed"]
              /\ UNCHANGED <<active_connections, user_sessions, broadcasts>>
    /\ UNCHANGED <<pc, schema, tb_meeting, tb_scenario, system_config, config,
                   today, running, snap, doc, arg, ret, static_files, tasks,
                   received>>

\* the connection of a socket takes a send: its handler has not ended
CanSend(websocket) == ws[websocket].at \in {"status", "receive", "forward"}

\* a broadcast suspended at "await connection.send_text(...)" goes on: the
\* send succeeded, or it raised and "except: pass" dropped the exception;
\* then the loops run to the next send, to the end or into RuntimeError
send_done(c, ok) ==
    /\ pc = "serving"
    /\ EventLoopFree
    /\ broadcasts[c].state = "send"
    /\ LET it == broadcasts[c]
           t  == it.target
       IN  /\ received' =
                  IF ok /\ CanSend(t) /\ it.msg.type # "user_status"
                  THEN [received EXCEPT ![t] = it.msg]
                  ELSE received
           /\ \E nx \in InnerNext([it EXCEPT !.visited = @ \cup {t},
                                             !.pending = @ \ {t}],
                                  active_connections) :
                 /\ broadcasts' = [broadcasts EXCEPT ![c] = Settle(nx)]
                 /\ ws' = IF c \in Sockets
                          THEN [ws EXCEPT ![c].at = Position(ws[c].at, nx)]
                          ELSE ws
    /\ UNCHANGED <<pc, schema, tb_meeting, tb_scenario, system_config, config,
                   today, running, snap, doc, arg, ret, static_files, tasks,
                   active_connections, user_sessions>>

---------------------------------------------------------------------------
(* Render handlers                                                         *)

\* a render handler writes to state.config what it reads with a default
render_writes_setdefault ==
    /\ config' = insert_or_replace(config, "current_item2" :> current_item2)
    /\ UNCHANGED <<schema, tb_meeting, tb_scenario, system_config>>

\* what a render handler writes: nothing (it only SELECTs, and reads
\* state.config with .get)
render_writes ==
    UNCHANGED <<schema, tb_meeting, tb_scenario, system_config, config>>

\* the first statements of a render handler: the two SELECTs
render_read(handler) ==
    /\ pc = "serving"
    /\ EventLoopFree
    /\ running' = handler
    /\ snap' = [meeting |-> LatestMeeting, scenarios |-> tb_scenario]
    /\ render_writes
    /\ UNCHANGED <<pc, today, doc, arg, ret, static_files, net, tasks>>

\* the rest of a render handler: it composes the document produced
render_done(handler, produced) ==
    /\ running = handler
    /\ running' = "none"
    /\ snap' = NoSnap
    /\ render_writes
    /\ doc' = IF produced.by = "none" THEN NoDoc
              ELSE [produced EXCEPT !.after = doc.by]
    /\ UNCHANGED <<pc, today, arg, ret, static_files, net, tasks>>

preview_modal_read == render_read("preview_modal")

preview_modal_render ==
    LET ata_html == ata_html_full(snap.meeting, snap.scenarios)
    IN  render_done("preview_modal",
            IF ata_html = Raised THEN NoDoc
            ELSE [by |-> "preview_modal", after |-> "none",
                  inputs |-> InputsOf(snap.meeting, snap.scenarios),
                  assets |-> static_files,
                  html |-> ata_html, out |-> ata_html, header |-> <<>>,
                  docx |-> <<>>, filename |-> <<>>])

export_pdf_read == render_read("export_pdf")

export_pdf_render ==
    LET html_body == export_pdf_body(snap.meeting, snap.scenarios)
    IN  render_done("export_pdf",
            IF html_body = Raised THEN NoDoc
            ELSE [by |-> "export_pdf", after |-> "none",
                  inputs |-> InputsOf(snap.meeting, snap.scenarios),
                  assets |-> static_files,
                  html |-> html_body, out |-> pdf_page(html_body),
                  header |-> <<>>, docx |-> <<>>,
                  filename |-> filename_fmt(get_numero(snap.meeting, 1),
                                            get_ano(snap.meeting, 2024), "pdf")])

export_docx_read == render_read("export_docx")

export_docx_render ==
    LET header   == _add_header_image(static_files)
        document == docx_document(snap.meeting, snap.scenarios)
    IN  render_done("export_docx",
            IF document = <<>> \/ header = Raised THEN NoDoc
            ELSE [by |-> "export_docx", after |-> "none",
                  inputs |-> InputsOf(snap.meeting, snap.scenarios),
                  assets |-> static_files,
                  html |-> <<>>, out |-> <<>>, header |-> header,
                  docx |-> document,
                  filename |-> filename_fmt(get_numero(snap.meeting, 1),
                                            get_ano(snap.meeting,
                                                    docx_date(snap.meeting).year),
                                            "docx")])

---------------------------------------------------------------------------
(* Requests the clients send                                               *)

NumeroInputs == {0, 4}

AnoInputs == {2025, 2051}

DataInputs == {isoformat(date(2025, 1, 15)), NotADate, EmptyDate}

HoraInputs == {<<"14:00">>}

LocalInputs == {LOCAL_PADRAO, <<>>}

LavradorInputs == {<<>>, PARTICIPANTES[4]}

ParticipantInputs == {PARTICIPANTES[1], PARTICIPANTES[3], <<>>}

TopicInputs == {<<"CHINA">>, <<>>}

TextInputs == {<<"Mercado estável.">>, <<>>}

Item2Inputs == {<<"Sem movimentações no período.">>, <<>>}

AssuntosInputs == {<<"Nada a registrar.">>}

PosicaoInputs == {<<"abaixo">>, <<"acima">>, <<"igual">>}

Next ==
    \/ Tick
    \/ load_config
    \/ on_startup
    \/ Restart
    \/ \E numero \in NumeroInputs, ano \in AnoInputs, data \in DataInputs, hora \in HoraInputs,
          local \in LocalInputs, lavrador \in LavradorInputs :
            meeting_update(numero, ano, data, hora, local, lavrador)
    \/ \E participant \in ParticipantInputs, topic \in TopicInputs, text \in TextInputs :
            scenario_save(participant, topic, text)
    \/ \E item2 \in Item2Inputs, assuntos \in AssuntosInputs : preview_update(item2, assuntos)
    \/ \E posicao \in PosicaoInputs :
            resumo_update(<<"1,23%">>, <<"0,15">>, posicao, <<"7,5%">>)
    \/ preview_modal_read
    \/ preview_modal_render
    \/ export_pdf_read
    \/ export_pdf_render
    \/ export_docx_read
    \/ export_docx_render
    \/ background

Spec == Init /\ [][Next]_vars

---------------------------------------------------------------------------
(* The image files of STATIC_DIR                                           *)

\* The files are not written by the program: whoever installs it puts them
\* into the directory on_startup creates, or leaves them out.
put_asset(f) ==
    /\ pc = "serving"
    /\ f \notin static_files
    /\ static_files' = static_files \cup {f}
    /\ UNCHANGED <<pc, schema, tb_meeting, tb_scenario, system_config, config,
                   today, running, snap, doc, arg, ret, net, tasks>>

remove_asset(f) ==
    /\ pc = "serving"
    /\ f \in static_files
    /\ static_files' = static_files \ {f}
    /\ UNCHANGED <<pc, schema, tb_meeting, tb_scenario, system_config, config,
                   today, running, snap, doc, arg, ret, net, tasks>>

NextAssets ==
    \/ load_config
    \/ on_startup
    \/ \E f \in AssetNames : put_asset(f)
    \/ \E f \in AssetNames : remove_asset(f)
    \/ preview_modal_read
    \/ preview_modal_render
    \/ export_pdf_read
    \/ export_pdf_render
    \/ export_docx_read
    \/ export_docx_render

SpecAssets == Init /\ [][NextAssets]_vars

---------------------------------------------------------------------------
(* Saving scenario entries                                                 *)

\* a name that is not in PARTICIPANTES
OUTRO_NOME == <<"João da Silva">>

ScenarioParticipants == {PARTICIPANTES[1], PARTICIPANTES[3], OUTRO_NOME, <<>>}

ScenarioTopics == {<<"CHINA", " ">>, <<>>}

ScenarioTexts == {<<"Mercado estável.">>, <<" ", "Juros em alta.">>, <<" ">>, <<>>}

NextScenarios ==
    \/ load_config
    \/ on_startup
    \/ \E participant \in ScenarioParticipants, topic \in ScenarioTopics,
          text \in ScenarioTexts :
            scenario_save(participant, topic, text)
    \/ preview_modal_read
    \/ preview_modal_render
    \/ export_pdf_read
    \/ export_pdf_render
    \/ background

SpecScenarios == Init /\ [][NextScenarios]_vars

---------------------------------------------------------------------------
(* Session numbers                                                         *)

SessionNumbers == {0, 1, 42, 999, 1000, 9999, 10000}

SessionYears == {2019, 2020, 2050}

NextNumbers ==
    \/ load_config
    \/ on_startup
    \/ \E numero \in SessionNumbers, ano \in SessionYears :
            meeting_update(numero, ano, isoformat(date(2025, 1, 15)),
                           <<"14:00">>, LOCAL_PADRAO, <<>>)
    \/ preview_modal_read
    \/ preview_modal_render
    \/ export_pdf_read
    \/ export_pdf_render
    \/ export_docx_read
    \/ export_docx_render
    \/ background

SpecNumbers == Init /\ [][NextNumbers]_vars

---------------------------------------------------------------------------
(* The summary parameters and the free texts                               *)

RentabInputs == {<<"1,23%">>, <<"não apurada">>, <<"acima de toda expectativa">>}

DifppInputs == {<<"0,15">>, <<"-1e9">>}

RiscoInputs == {<<"7,5%">>, <<>>}

ResumoPosicoes == {<<"abaixo">>, <<"acima">>, <<"igual">>, <<"abaixo", "\n">>}

FreeItem2 == {<<"Sem movimentações no período.">>, <<"<b>", "Ver anexo", "</b>">>, <<>>}

FreeAssuntos == {<<"Nada a registrar.">>, <<>>}

NextTexts ==
    \/ load_config
    \/ on_startup
    \/ Restart
    \/ \E rentab \in RentabInputs, difpp \in DifppInputs,
          posicao \in ResumoPosicoes, risco \in RiscoInputs :
            resumo_update(rentab, difpp, posicao, risco)
    \/ \E item2 \in FreeItem2, assuntos \in FreeAssuntos :
            preview_update(item2, assuntos)
    \/ preview_modal_read
    \/ preview_modal_render
    \/ export_pdf_read
    \/ export_pdf_render

SpecTexts == Init /\ [][NextTexts]_vars

---------------------------------------------------------------------------
(* The prefix function on its own                                          *)

\* pieces of names: the roster names, a name outside the roster, a blank and
\* a title; a name is made of at most MaxPieces of them
NamePieces ==
    {PARTICIPANTES[i][1] : i \in 1..Len(PARTICIPANTES)}
        \cup {OUTRO_NOME[1], " ", "Sra."}

MaxPieces == 2

TestNames ==
    UNION {[1..n -> NamePieces] : n \in 0..MaxPieces}

InitPrefixo ==
    /\ pc = "import"
    /\ schema = FALSE
    /\ tb_meeting = <<>>
    /\ tb_scenario = <<>>
    /\ system_config = EmptyDict
    /\ config = EmptyDict
    /\ today = ClockStart
    /\ static_files = {}
    /\ NoSockets
    /\ running = "none"
    /\ snap = NoSnap
    /\ doc = NoDoc
    /\ arg \in TestNames
    /\ ret = <<>>

apply_prefixo_genero ==
    /\ ret = <<>>
    /\ ret' = _prefixo_genero(arg)
    /\ UNCHANGED <<arg, pc, schema, tb_meeting, tb_scenario, system_config,
                   config, today, static_files, running, snap, doc, net, tasks>>

NextPrefixo == apply_prefixo_genero

SpecPrefixo == InitPrefixo /\ [][NextPrefixo]_vars

---------------------------------------------------------------------------
(* The ordinal lookup on its own                                           *)

MaxDay == 60

\* the days of a month and numbers on both sides of them
TestDays == 0..MaxDay

InitOrdinal ==
    /\ pc = "import"
    /\ schema = FALSE
    /\ tb_meeting = <<>>
    /\ tb_scenario = <<>>
    /\ system_config = EmptyDict
    /\ config = EmptyDict
    /\ today = ClockStart
    /\ static_files = {}
    /\ NoSockets
    /\ running = "none"
    /\ snap = NoSnap
    /\ doc = NoDoc
    /\ arg \in TestDays
    /\ ret = <<>>

apply_ordinal_dia ==
    /\ ret = <<>>
    /\ ret' = ordinal_dia(arg)
    /\ UNCHANGED <<arg, pc, schema, tb_meeting, tb_scenario, system_config,
                   config, today, static_files, running, snap, doc, net, tasks>>

NextOrdinal == apply_ordinal_dia

SpecOrdinal == InitOrdinal /\ [][NextOrdinal]_vars

---------------------------------------------------------------------------
(* The viewers: WebSocket connections, their messages and the broadcasts   *)

NextSockets ==
    \/ load_config
    \/ on_startup
    \/ \E websocket \in Sockets : ws_connect(websocket, PathUser(websocket))
    \/ \E websocket \in Sockets, data \in Received : ws_receive(websocket, data)
    \/ \E c \in Coroutines, ok \in BOOLEAN : send_done(c, ok)

SpecSockets == Init /\ [][NextSockets]_vars

---------------------------------------------------------------------------
(* The viewers and the saves: what a background broadcast reaches          *)

\* one tab of each user, which does not send
Viewers == {"w1", "w3"}

NextPublish ==
    \/ load_config
    \/ on_startup
    \/ meeting_update(5, 2025, isoformat(date(2025, 1, 15)), <<"14:00">>,
                      LOCAL_PADRAO, <<>>)
    \/ scenario_save(PARTICIPANTES[1], <<"CHINA">>, <<"Mercado estável.">>)
    \/ preview_update(<<"Sem movimentações no período.">>, <<"Nada a registrar.">>)
    \/ resumo_update(<<"1,23%">>, <<"0,15">>, <<"acima">>, <<"7,5%">>)
    \/ background
    \/ \E websocket \in Viewers : ws_connect(websocket, PathUser(websocket))
    \/ \E websocket \in Viewers, data \in {"text", "disconnect"} :
            ws_receive(websocket, data)
    \/ \E c \in Coroutines, ok \in BOOLEAN : send_done(c, ok)

SpecPublish == Init /\ [][NextPublish]_vars

---------------------------------------------------------------------------
(* The saves and their answers                                             *)

\* a str of n characters, as one atom
RECURSIVE Chars(_)
Chars(n) ==
    IF n = 0 THEN ""
    ELSE LET half == Chars(n \div 2)
         IN  IF n % 2 = 0 THEN half \o half ELSE half \o half \o "x"

\* the limits of the four models and the values on both sides of them
SaveNumbers == {0, 1, 9999, 10000}

SaveYears == {2019, 2020, 2050, 2051}

SaveLocals == {LOCAL_PADRAO, <<Chars(201)>>, <<>>}

SaveTopics == {<<"CHINA">>, <<>>}

SaveTexts == {<<"Mercado estável.">>, <<Chars(5000)>>, <<Chars(5001)>>}

SaveItems == {<<"Sem movimentações no período.">>, <<Chars(2001)>>, <<>>}

SavePosicoes == {<<"acima">>, <<"igual">>}

NextSaves ==
    \/ load_config
    \/ on_startup
    \/ Restart
    \/ \E numero \in SaveNumbers, ano \in SaveYears, local \in SaveLocals :
            meeting_update(numero, ano, isoformat(date(2025, 1, 15)),
                           <<"14:00">>, local, <<>>)
    \/ \E topic \in SaveTopics, text \in SaveTexts :
            scenario_save(PARTICIPANTES[1], topic, text)
    \/ \E item2 \in SaveItems, assuntos \in SaveItems :
            preview_update(item2, assuntos)
    \/ \E posicao \in SavePosicoes :
            resumo_update(<<"1,23%">>, <<"0,15">>, posicao, <<"7,5%">>)
    \/ background

SpecSaves == Init /\ [][NextSaves]_vars

---------------------------------------------------------------------------
(* The date function on its own                                            *)

YearSpan == 1

TestYears == {MINYEAR, MINYEAR + 1, 1900, 2000} \cup (2024..(2024 + YearSpan))

TestDates ==
    {date(y, m, d) : y \in TestYears, m \in 1..12, d \in 1..31} \ {ValueError}

\* ret before the function has been applied
Pending == [year |-> -1, month |-> 0, day |-> 0]

InitDates ==
    /\ pc = "import"
    /\ schema = FALSE
    /\ tb_meeting = <<>>
    /\ tb_scenario = <<>>
    /\ system_config = EmptyDict
    /\ config = EmptyDict
    /\ today = ClockStart
    /\ static_files = {}
    /\ NoSockets
    /\ running = "none"
    /\ snap = NoSnap
    /\ doc = NoDoc
    /\ arg \in TestDates
    /\ ret = Pending

apply_menos_dois_meses ==
    /\ ret = Pending
    /\ ret' = menos_dois_meses(arg)
    /\ UNCHANGED <<arg, pc, schema, tb_meeting, tb_scenario, system_config,
                   config, today, static_files, running, snap, doc, net, tasks>>

NextDates == apply_menos_dois_meses

SpecDates == InitDates /\ [][NextDates]_vars

---------------------------------------------------------------------------
(* Claims                                                                  *)

HtmlHandlers == {"preview_modal", "export_pdf"}

\* the names of the clauses of item 1, in the order they appear in a document
ClauseNames(html) ==
    LET at == {i \in 3..Len(html) : html[i] = " falando sobre "}
    IN  [k \in 1..Cardinality(at) |->
            LET i == CHOOSE n \in at : Cardinality({j \in at : j < n}) = k - 1
            IN  <<html[i - 2]>>]

RosterIndex(nome) == CHOOSE i \in 1..Len(PARTICIPANTES) : PARTICIPANTES[i] = nome

StoredIndex(nome) ==
    CHOOSE i \in 1..Len(tb_scenario) : tb_scenario[i].participant = nome

StoredDate == fromisoformat(LatestMeeting[1].data)

\* C1: once the application has started, and after any meeting_update calls,
\* table meeting holds exactly one row (and it never holds more than one).
C1_OneMeetingRow ==
    /\ Len(tb_meeting) <= 1
    /\ pc = "serving" => Len(tb_meeting) = 1

C1_Witness ==
    /\ pc = "serving"
    /\ Len(tb_meeting) = 1
    /\ tb_meeting[1].lavrador = PARTICIPANTES[4]
    /\ tb_meeting[1].data = isoformat(date(2025, 1, 15))

\* C2: in every reachable state of the running application the stored session
\* date parses as a calendar date (a meeting_update with an unparseable date
\* was rejected and left the session unchanged).
C2_StoredDateParses ==
    pc = "serving" => StoredDate # ValueError

\* C3: the DOCX export carries what the HTML composed from the same stored
\* state carries: every scenario clause and the item-3 sentence
\* "ficando {difference} p.p. {position} da meta atuarial." of the HTML
\* occur in the text of the DOCX document.
C3_DocxCarriesHtmlContent ==
    (pc = "serving" /\ doc.by = "export_docx") =>
        LET html  == ata_html_full(LatestMeeting, tb_scenario)
            frags == {<<", ficando ">> \o doc.inputs.difpp \o <<" p.p. ">>
                          \o doc.inputs.posicao \o <<" da meta atuarial.">>}
                     \cup {<<" falando sobre ">> \o strip(tb_scenario[i].topic)
                               \o <<", ">> \o strip(tb_scenario[i].text) :
                           i \in 1..Len(tb_scenario)}
        IN  \A f \in frags : Occurs(f, html) => Occurs(f, docx_text(doc.docx))

\* C4: when the PDF export follows a preview of the same inputs, the page it
\* hands to the HTML-to-PDF conversion is the string the preview showed,
\* between the fixed head (the stylesheet) and the fixed tail; and the same
\* when the preview follows the export.
C4_PdfBodyIsPreview ==
    [][/\ (doc.by = "preview_modal" /\ doc'.by = "export_pdf"
              /\ doc'.inputs = doc.inputs)
          => doc'.out = PDF_HEAD \o doc.out \o PDF_TAIL
       /\ (doc.by = "export_pdf" /\ doc'.by = "preview_modal"
              /\ doc'.inputs = doc.inputs)
          => doc.out = PDF_HEAD \o doc'.out \o PDF_TAIL]_vars

C4_Witness ==
    /\ doc.by = "export_pdf"
    /\ doc.after = "preview_modal"
    /\ Len(ClauseNames(doc.html)) >= 1
    /\ "current_item2" \in DOMAIN config

\* C5: two compositions (ata_html_full) of identical inputs return the
\* identical document, whatever ran between them (the clock moving on, a
\* restart, rejected saves, saves that rewrite the same values).
C5_Deterministic ==
    [][(/\ doc.by \in HtmlHandlers /\ doc'.by \in HtmlHandlers
        /\ doc'.inputs = doc.inputs)
          => doc'.html = doc.html]_vars

C5_Witness ==
    /\ doc.by \in HtmlHandlers
    /\ doc.after \in HtmlHandlers
    /\ today = ClockLater
    /\ StoredDate # ValueError
    /\ mes_ano_pt(menos_dois_meses(StoredDate)) # mes_ano_pt(menos_dois_meses(today))
    /\ StoredIndex(PARTICIPANTES[1]) > StoredIndex(PARTICIPANTES[3])

\* C6: a step of preview_modal, export_pdf or export_docx leaves the stored
\* session, the scenario entries, the system_config rows and state.config
\* as they were.
C6_RenderWritesNothing ==
    [][(pc = "serving" /\ pc' = "serving" /\ running' # running)
          => UNCHANGED <<tb_meeting, tb_scenario, system_config, config>>]_vars

C6_Witness ==
    /\ doc.by = "export_docx"
    /\ doc.after = "preview_modal"
    /\ "resumo_posicao" \in DOMAIN config
    /\ "current_item2" \notin DOMAIN config

\* C7: no save takes effect part-way through a render: while a render handler
\* runs, what it read is what is stored, and the inputs of every document are
\* those of one stored state.
C7_RenderSnapshot ==
    /\ running # "none" =>
          /\ snap.meeting = LatestMeeting
          /\ snap.scenarios = tb_scenario
    /\ (pc = "serving" /\ doc.by # "none") => doc.inputs = Inputs

C7_Witness ==
    /\ running = "export_pdf"
    /\ doc.by = "preview_modal"
    /\ snap.meeting[1].lavrador # <<>>
    /\ \E i \in 1..Len(snap.scenarios) : snap.scenarios[i].text # <<>>

\* C8: the date texts of every rendered document (the long date, the ordinal
\* day and month of item 1, the D-2 month and year of item 3) are those of
\* the stored session date, not of the wall clock.
C8_DatesFromSession ==
    /\ doc.by \in HtmlHandlers =>
          /\ Occurs(<<"<p><strong>Data:</strong> ">> \o ptbr_date(StoredDate)
                        \o <<".<br/><strong>Hora:</strong> ">>, doc.html)
          /\ Occurs(<<"No ">> \o ordinal_dia(StoredDate.day)
                        \o <<" dia do mês de ", nomes[StoredDate.month],
                             " do ano de ">> \o Digits(StoredDate.year)
                        \o <<", às ">>, doc.html)
          /\ Occurs(mes_ano_pt(menos_dois_meses(StoredDate)) \o <<" foi de ">>,
                    doc.html)
    /\ doc.by = "export_docx" =>
          /\ doc.docx[2].runs[1].text = <<"Data", ": ">>
          /\ doc.docx[2].runs[2].text = ptbr_date(StoredDate)

C8_Witness ==
    /\ doc.by = "export_docx"
    /\ ptbr_date(StoredDate) # ptbr_date(today)
    /\ doc.after \in HtmlHandlers

\* C9 as claimed: for every valid calendar date, menos_dois_meses returns a
\* valid calendar date with day min(d, 28), month m-2 (m+10 when m <= 2) and
\* year y (y-1 when m <= 2).
C9_Claimed ==
    ret # Pending =>
        /\ ret # ValueError
        /\ ret.day = (IF arg.day < 28 THEN arg.day ELSE 28)
        /\ ret.month = (IF arg.month >= 3 THEN arg.month - 2 ELSE arg.month + 10)
        /\ ret.year = (IF arg.month >= 3 THEN arg.year ELSE arg.year - 1)

\* C9 amended: the same for every valid calendar date except January and
\* February of year 1 (datetime.MINYEAR), for which the function raises
\* ValueError, year 0 being no year of a date.
C9_ExceptFirstYear ==
    ret # Pending =>
        IF arg.year = MINYEAR /\ arg.month <= 2
        THEN ret = ValueError
        ELSE /\ ret # ValueError
             /\ ret.day \in 1..DaysInMonth(ret.year, ret.month)
             /\ ret.day = (IF arg.day < 28 THEN arg.day ELSE 28)
             /\ ret.month = (IF arg.month >= 3 THEN arg.month - 2 ELSE arg.month + 10)
             /\ ret.year = (IF arg.month >= 3 THEN arg.year ELSE arg.year - 1)

C9_Witness ==
    /\ arg = date(2025, 1, 15)
    /\ ret = date(2024, 11, 15)

\* C10: the clauses of the item-1 paragraph of every rendered HTML document
\* appear in the order of PARTICIPANTES, whatever the order of the rows.
C10_RosterOrder ==
    doc.by \in HtmlHandlers =>
        LET names == ClauseNames(doc.html)
        IN  \A i, j \in 1..Len(names) :
                i < j => RosterIndex(names[i]) < RosterIndex(names[j])

C10_Witness ==
    /\ doc.by \in HtmlHandlers
    /\ ClauseNames(doc.html) = <<PARTICIPANTES[1], PARTICIPANTES[3]>>
    /\ StoredIndex(PARTICIPANTES[1]) > StoredIndex(PARTICIPANTES[3])

\* C12: an HTML document (preview or PDF body) carries the image element of
\* brasao.png, and that of simbolo.png, exactly when the file was in STATIC_DIR
\* at the time of the render: no reference to a missing image.
C12_NoMissingImageReference ==
    doc.by \in HtmlHandlers =>
        \A f \in {"brasao.png", "simbolo.png"} :
            (f \in doc.assets) <=>
                Occurs(<<"<img src=\"">> \o STATIC_DIR \o <<"/", f>>, doc.html)

\* the text of the last paragraph of a DOCX document
LastParagraph(d) == d[Len(d)].runs[1].text

\* C13: with cabecalho.png absent export_docx puts no picture in the header,
\* raises nothing and returns the complete document, from the title to the
\* last agenda line; with the file present the header holds the picture; and
\* the body is that of the previous DOCX export of the same inputs, whatever
\* files were there then.
C13_DocxWithoutBanner ==
    [][(running = "export_docx" /\ running' = "none" /\ pc' = "serving"
            /\ docx_date(snap.meeting) # ValueError)
          => /\ doc'.by = "export_docx"
             /\ doc'.docx # <<>>
             /\ doc'.docx[1].runs[1].text[1] = "Sessão Ordinária nº "
             /\ LastParagraph(doc'.docx) = <<"4. Assuntos Gerais.">>
             /\ ("cabecalho.png" \notin static_files) => doc'.header = <<>>
             /\ ("cabecalho.png" \in static_files) =>
                    doc'.header = STATIC_DIR \o <<"/", "cabecalho.png">>
             /\ (doc.by = "export_docx" /\ doc.inputs = doc'.inputs)
                    => doc'.docx = doc.docx]_vars

C13_Witness ==
    /\ doc.by = "export_docx"
    /\ doc.after = "export_docx"
    /\ "cabecalho.png" \notin doc.assets
    /\ doc.header = <<>>
    /\ "cabecalho.png" \in static_files
    /\ LastParagraph(doc.docx) = <<"4. Assuntos Gerais.">>

\* the entry of a participant among the inputs of the document, as the claim
\* reads a missing one: empty text and topic
EntryOf(nome) ==
    IF nome \in DOMAIN doc.inputs.scenarios
    THEN doc.inputs.scenarios[nome]
    ELSE [text |-> <<>>, topic |-> <<>>]

\* the bold start of the clause of a participant
ClauseHead(nome) ==
    <<"<strong>">> \o _prefixo_genero(nome) \o <<" ">> \o nome
        \o <<"</strong>", " falando sobre ">>

Roster == {PARTICIPANTES[i] : i \in 1..Len(PARTICIPANTES)}

\* C11 as claimed: the item-1 paragraph of a rendered HTML document holds the
\* clause of a roster participant (bold prefix and name, " falando sobre ",
\* the topic, ", ", the text) exactly when the participant's entry has a
\* non-empty text, and holds nothing else of the kind: as many
\* " falando sobre " as there are such participants, no empty bold run.
C11_Claimed ==
    doc.by \in HtmlHandlers =>
        /\ \A nome \in Roster :
              /\ Occurs(ClauseHead(nome), doc.html) <=> (EntryOf(nome).text # <<>>)
              /\ EntryOf(nome).text # <<>> =>
                     Occurs(ClauseHead(nome) \o EntryOf(nome).topic \o <<", ">>
                                \o EntryOf(nome).text, doc.html)
        /\ Cardinality({i \in 1..Len(doc.html) : doc.html[i] = " falando sobre "})
              = Cardinality({nome \in Roster : EntryOf(nome).text # <<>>})
        /\ ~Occurs(<<"<strong>", "</strong>">>, doc.html)

\* C11 amended: the same with the text and the topic stripped of surrounding
\* whitespace: the clause is there exactly when the stripped text is
\* non-empty, and it carries the stripped topic and the stripped text.
C11_StrippedText ==
    doc.by \in HtmlHandlers =>
        /\ \A nome \in Roster :
              /\ Occurs(ClauseHead(nome), doc.html)
                     <=> (strip(EntryOf(nome).text) # <<>>)
              /\ strip(EntryOf(nome).text) # <<>> =>
                     Occurs(ClauseHead(nome) \o strip(EntryOf(nome).topic) \o <<", ">>
                                \o strip(EntryOf(nome).text), doc.html)
        /\ Cardinality({i \in 1..Len(doc.html) : doc.html[i] = " falando sobre "})
              = Cardinality({nome \in Roster : strip(EntryOf(nome).text) # <<>>})
        /\ ~Occurs(<<"<strong>", "</strong>">>, doc.html)

C11_Witness ==
    /\ doc.by \in HtmlHandlers
    /\ EntryOf(PARTICIPANTES[1]).text = <<" ">>
    /\ EntryOf(PARTICIPANTES[2]).text = <<>>
    /\ EntryOf(PARTICIPANTES[3]).text = <<" ", "Juros em alta.">>
    /\ ClauseNames(doc.html) = <<PARTICIPANTES[3]>>

\* C17: every row of table scenario is the entry of a roster participant.
C17_ParticipantsInRoster ==
    \A i \in 1..Len(tb_scenario) : tb_scenario[i].participant \in Roster

\* the entries of a table scenario, by participant
EntriesOf(table) ==
    [nome \in {table[i].participant : i \in 1..Len(table)} |->
        scenarios_get(table, nome)]

\* what scenario_save(p, t, x) is to do: a successful one leaves the entry
\* of p with topic t and text x and every other entry as it was, a rejected
\* one leaves the table as it was
ScenarioSaved(p, t, x) ==
    IF p # <<>> /\ t # <<>> /\ x # <<>>
    THEN /\ p \in DOMAIN EntriesOf(tb_scenario')
         /\ EntriesOf(tb_scenario')[p] = [text |-> x, topic |-> t]
         /\ \A q \in DOMAIN EntriesOf(tb_scenario') \ {p} :
                /\ q \in DOMAIN EntriesOf(tb_scenario)
                /\ EntriesOf(tb_scenario')[q] = EntriesOf(tb_scenario)[q]
         /\ DOMAIN EntriesOf(tb_scenario) \subseteq DOMAIN EntriesOf(tb_scenario')
    ELSE tb_scenario' = tb_scenario

\* C18: table scenario never holds two rows of one participant; in the
\* running application every scenario_save does what ScenarioSaved says,
\* so an entry holds the topic and text of the latest successful save for
\* its participant; and nothing but a scenario_save changes the entries.
C18_KeyedByParticipant ==
    /\ [](/\ \A i, j \in 1..Len(tb_scenario) :
                tb_scenario[i].participant = tb_scenario[j].participant => i = j
          /\ (pc = "serving" /\ EventLoopFree /\ Len(tasks) < MaxTasks) =>
                \A p \in ScenarioParticipants, t \in ScenarioTopics,
                   x \in ScenarioTexts :
                    ENABLED (scenario_save(p, t, x) /\ ScenarioSaved(p, t, x)))
    /\ [][(pc = "serving" /\ EntriesOf(tb_scenario') # EntriesOf(tb_scenario)) =>
              \E p \in ScenarioParticipants, t \in ScenarioTopics,
                 x \in ScenarioTexts : scenario_save(p, t, x)]_vars

C18_Witness ==
    /\ pc = "serving"
    /\ Len(tb_scenario) = Len(PARTICIPANTES)
    /\ EntriesOf(tb_scenario)[PARTICIPANTES[1]] =
           [text |-> <<" ", "Juros em alta.">>, topic |-> <<"CHINA", " ">>]
    /\ EntriesOf(tb_scenario)[PARTICIPANTES[3]] =
           [text |-> <<" ">>, topic |-> <<"CHINA", " ">>]
    /\ tb_scenario[Len(tb_scenario)].participant = PARTICIPANTES[3]
    /\ tb_scenario[Len(tb_scenario) - 1].participant = PARTICIPANTES[1]

\* the last three decimal digits of n, and n written with four digits
ThreeDigits(n) ==
    <<ToString((n \div 100) % 10), ToString((n \div 10) % 10), ToString(n % 10)>>

FourDigits(n) == <<ToString((n \div 1000) % 10)>> \o ThreeDigits(n)

\* the title and the file name of the document with the number written as nnn
TitleAndFilenameShow(nnn) ==
    LET yyyy == FourDigits(doc.inputs.meeting[1].ano)
    IN  /\ doc.by \in HtmlHandlers =>
               Occurs(<<"<p><strong>Sessão Ordinária nº ">> \o nnn \o <<"/">>
                          \o yyyy \o <<"</strong></p>">>, doc.html)
        /\ doc.by = "export_pdf" =>
               doc.filename = <<"Ata_">> \o nnn \o <<"-">> \o yyyy \o <<".", "pdf">>
        /\ doc.by = "export_docx" =>
               /\ doc.docx[1].runs[1].text =
                      <<"Sessão Ordinária nº ">> \o nnn \o <<"/">> \o yyyy
               /\ doc.filename =
                      <<"Ata_">> \o nnn \o <<"-">> \o yyyy \o <<".", "docx">>

\* C14 as claimed: the stored session number is one meeting_update accepts
\* (1 to 9999) and every document shows it with exactly three digits, padded
\* with zeros, in the title "Sessão Ordinária nº NNN/YYYY" and in the file
\* name "Ata_NNN-YYYY.<ext>", YYYY being the stored year.
C14_Claimed ==
    /\ pc = "serving" => LatestMeeting[1].numero \in 1..9999
    /\ doc.by # "none" =>
           TitleAndFilenameShow(ThreeDigits(doc.inputs.meeting[1].numero))

\* C14 amended: the number is padded with zeros to three digits when it is
\* below 1000 and is written with its four digits from 1000 to 9999.
C14_AtLeastThreeDigits ==
    /\ pc = "serving" => LatestMeeting[1].numero \in 1..9999
    /\ doc.by # "none" =>
           LET n == doc.inputs.meeting[1].numero
           IN  TitleAndFilenameShow(IF n < 1000 THEN ThreeDigits(n)
                                    ELSE FourDigits(n))

C14_Witness ==
    /\ doc.by = "export_docx"
    /\ doc.after = "export_pdf"
    /\ doc.inputs.meeting[1].numero = 42
    /\ doc.inputs.meeting[1].ano = 2050
    /\ doc.filename = <<"Ata_", "0", "4", "2", "-", "2", "0", "5", "0", ".", "docx">>

\* the value stored under a key of table system_config, or a default
Stored(k, default) ==
    IF k \in DOMAIN system_config THEN system_config[k] ELSE default

\* the two item-3 sentences of the rendered HTML document carry the stored
\* summary parameters as they are
SummaryShown ==
    doc.by \in HtmlHandlers =>
        /\ Occurs(<<" foi de ">> \o Stored("resumo_rentab", <<>>)
                      \o <<", ficando ">> \o Stored("resumo_difpp", <<>>)
                      \o <<" p.p. ">> \o Stored("resumo_posicao", <<"abaixo">>)
                      \o <<" da meta atuarial.">>, doc.html)
        /\ Occurs(<<"<p>">> \o item3_p2(Stored("resumo_risco", <<>>)) \o <<"</p>">>,
                  doc.html)

\* a resumo_update with these values leaves them stored and cached
SummarySaved(rentab, difpp, posicao, risco) ==
    /\ Stored("resumo_rentab", <<>>)' = rentab
    /\ Stored("resumo_difpp", <<>>)' = difpp
    /\ Stored("resumo_posicao", <<>>)' = posicao
    /\ Stored("resumo_risco", <<>>)' = risco
    /\ \A k \in {"resumo_rentab", "resumo_difpp", "resumo_posicao", "resumo_risco"} :
          k \in DOMAIN config' /\ config'[k] = system_config'[k]

\* C15 as claimed: the running application accepts a resumo_update whatever
\* strings it brings for profitability, difference and risk (its position
\* being one of the two words): the step leaves them stored; and every
\* rendered document shows the stored strings verbatim.
C15_Claimed ==
    /\ (pc = "serving" /\ EventLoopFree) =>
          \A rentab \in RentabInputs, difpp \in DifppInputs,
             posicao \in {<<"abaixo">>, <<"acima">>}, risco \in RiscoInputs :
              ENABLED (/\ resumo_update(rentab, difpp, posicao, risco)
                       /\ SummarySaved(rentab, difpp, posicao, risco))
    /\ SummaryShown

\* C15 amended: the same for strings of at most 20 characters; a
\* resumo_update with a longer one is rejected and changes nothing.
C15_UpToTwentyCharacters ==
    /\ (pc = "serving" /\ EventLoopFree) =>
          \A rentab \in RentabInputs, difpp \in DifppInputs,
             posicao \in {<<"abaixo">>, <<"acima">>}, risco \in RiscoInputs :
              IF \A v \in {rentab, difpp, risco} : StrLen(v) <= 20
              THEN ENABLED (/\ resumo_update(rentab, difpp, posicao, risco)
                            /\ SummarySaved(rentab, difpp, posicao, risco))
              ELSE ENABLED (/\ resumo_update(rentab, difpp, posicao, risco)
                            /\ UNCHANGED <<system_config, config>>)
    /\ SummaryShown

C15_Witness ==
    /\ doc.by \in HtmlHandlers
    /\ Stored("resumo_rentab", <<>>) = <<"não apurada">>
    /\ Stored("resumo_difpp", <<>>) = <<"-1e9">>
    /\ Stored("resumo_risco", <<"?">>) = <<>>
    /\ Occurs(<<" foi de ", "não apurada", ", ficando ", "-1e9", " p.p. ">>, doc.html)

\* C16: the position item 3 uses is "abaixo" or "acima".
C16_PositionIsEnum ==
    pc = "serving" =>
        cfg_get("resumo_posicao", <<"abaixo">>) \in {<<"abaixo">>, <<"acima">>}

\* the free texts in force: the saved ones, or the configured defaults
StoredItem2 == Stored("current_item2", Stored("item2_default", ITEM2_DEFAULT))

StoredAssuntos ==
    Stored("current_assuntos", Stored("assuntos_default", ASSUNTOS_DEFAULT))

\* the paragraphs under the headings of item 2 and item 4 are the free texts
\* in force, and nothing else
FreeTextsShown ==
    doc.by \in HtmlHandlers =>
        /\ Occurs(<<"<p><strong>Item 02 - Movimentações e Aplicações financeiras</strong></p>",
                     "\n", "<p>">> \o StoredItem2
                     \o <<"</p>", "\n",
                          "<p><strong>Item 03 - Acompanhamento dos Recursos Investidos:</strong></p>">>,
                  doc.html)
        /\ Occurs(<<"<p><strong>Item 04 - Assuntos Gerais</strong></p>", "\n", "<p>">>
                     \o StoredAssuntos
                     \o <<"</p>", "\n",
                          "<p>Nada mais havendo a tratar, foi encerrada a reunião e eu, ">>,
                  doc.html)

\* C19: in the running application a successful preview_update(item2,
\* assuntos) makes item2 and assuntos the free texts in force and a rejected
\* one changes nothing; nothing else changes them; they are the configured
\* defaults until the first successful preview_update; and the Item 02 and
\* Item 04 paragraphs of every rendered document are the texts in force.
C19_FreeTextsVerbatim ==
    /\ [](/\ (pc = "serving" /\ EventLoopFree) =>
                \A item2 \in FreeItem2, assuntos \in FreeAssuntos :
                    ENABLED (/\ preview_update(item2, assuntos)
                             /\ IF item2 # <<>> /\ assuntos # <<>>
                                THEN /\ StoredItem2' = item2
                                     /\ StoredAssuntos' = assuntos
                                ELSE UNCHANGED <<system_config, config>>)
          /\ ("current_item2" \notin DOMAIN system_config) =>
                (StoredItem2 = ITEM2_DEFAULT /\ StoredAssuntos = ASSUNTOS_DEFAULT)
          /\ FreeTextsShown)
    /\ [][(pc = "serving"
              /\ (StoredItem2' # StoredItem2 \/ StoredAssuntos' # StoredAssuntos))
             => \E item2 \in FreeItem2, assuntos \in FreeAssuntos :
                   preview_update(item2, assuntos)]_vars

C19_Witness ==
    /\ doc.by \in HtmlHandlers
    /\ doc.after \in HtmlHandlers
    /\ StoredItem2 = <<"<b>", "Ver anexo", "</b>">>
    /\ StoredAssuntos = <<"Nada a registrar.">>
    /\ Occurs(<<"<p>", "<b>", "Ver anexo", "</b>", "</p>">>, doc.html)

\* C20: _prefixo_genero returns "A Sra." exactly for the names of
\* PARTICIPANTES_MULHERES and "O Sr." for every other name, in the roster
\* or not; and the names of PARTICIPANTES_MULHERES are roster names.
C20_PrefixByMembership ==
    /\ PARTICIPANTES_MULHERES \subseteq Roster
    /\ ret # <<>> =>
          /\ (ret = <<"A Sra.">>) <=> (arg \in PARTICIPANTES_MULHERES)
          /\ (arg \notin PARTICIPANTES_MULHERES) => ret = <<"O Sr.">>

C20_Witness ==
    /\ arg = <<"Mariana Schneider Viana">>
    /\ ret = <<"A Sra.">>

---------------------------------------------------------------------------
(* C21                                                                     *)

OrdinalUnits ==
    <<"primeiro", "segundo", "terceiro", "quarto", "quinto",
      "sexto", "sétimo", "oitavo", "nono">>

OrdinalTens == <<"décimo", "vigésimo", "trigésimo">>

\* the Portuguese ordinal of a day of the month, composed from tens and units
OrdinalWords(day) ==
    IF day < 10 THEN OrdinalUnits[day]
    ELSE IF day % 10 = 0 THEN OrdinalTens[day \div 10]
    ELSE OrdinalTens[day \div 10] \o " " \o OrdinalUnits[day % 10]

\* C21: the ordinal lookup of the opening of item 1 gives every day from 1
\* to 31 its Portuguese ordinal as one word or phrase (1 'primeiro', 21
\* 'vigésimo primeiro', 31 'trigésimo primeiro'), and gives any other number
\* its decimal numeral.
C21_OrdinalTotal ==
    ret # <<>> =>
        IF arg \in 1..31
        THEN /\ ret = <<OrdinalWords(arg)>>
             /\ arg = 1 => ret = <<"primeiro">>
             /\ arg = 21 => ret = <<"vigésimo primeiro">>
             /\ arg = 31 => ret = <<"trigésimo primeiro">>
        ELSE ret = Digits(arg)

C21_Witness ==
    arg = 21 /\ ret = <<"vigésimo primeiro">>

---------------------------------------------------------------------------
(* C22                                                                     *)

\* a step of the serving process that changes what is saved: a successful
\* save that stores something new
SaveStep ==
    /\ pc = "serving" /\ pc' = "serving"
    /\ \/ tb_meeting' # tb_meeting
       \/ tb_scenario' # tb_scenario
       \/ system_config' # system_config

\* the update messages a save publishes
UpdateTypes == {"meeting_update", "scenario_update", "preview_update", "resumo_update"}

\* C22: every successful save leaves an update message to be published to
\* the connected viewers: the step of the save adds the broadcast of that
\* message to the background tasks of its response, the only way by which a
\* handler of an HTTP request publishes.
C22_PublishOnSave ==
    [][SaveStep =>
          /\ Len(tasks') = Len(tasks) + 1
          /\ tasks'[Len(tasks')].type \in UpdateTypes]_vars

---------------------------------------------------------------------------
(* C23                                                                     *)

\* C23: table system_config is never read before it exists, so the process
\* never ends at import with a missing-table error: started on a database
\* file without tables, it gets to serve.
C23_NoMissingTable == pc # "crashed"

---------------------------------------------------------------------------
(* C24                                                                     *)

\* the keys the renderer reads that the two handlers write
SavedKeys ==
    {"current_item2", "current_assuntos", "resumo_rentab", "resumo_difpp",
     "resumo_posicao", "resumo_risco"}

\* C24: whenever the process has loaded its configuration (it is starting up
\* or serving), each of the six keys written by preview_update and
\* resumo_update is in state.config exactly when it is in table
\* system_config, and with the same value, whatever requests were accepted
\* or rejected and however often the process was restarted.
C24_CacheCoherent ==
    pc \in {"startup", "serving"} =>
        \A k \in SavedKeys :
            /\ k \in DOMAIN config <=> k \in DOMAIN system_config
            /\ k \in DOMAIN config => config[k] = system_config[k]

\* a process that was restarted after both handlers had saved
C24_Witness ==
    /\ pc = "startup"
    /\ "current_item2" \in DOMAIN config
    /\ "resumo_risco" \in DOMAIN config
    /\ config["resumo_posicao"] = <<"acima">>

---------------------------------------------------------------------------
(* C30                                                                     *)

\* the database has been through ensure_schema: the tables exist, the seeded
\* tables have rows and the default keys are there
Initialised ==
    /\ schema
    /\ tb_meeting # <<>>
    /\ tb_scenario # <<>>
    /\ DOMAIN default_configs \subseteq DOMAIN system_config

\* the step of the startup event, which runs ensure_schema
StartupStep == pc = "startup" /\ pc' = "serving"

\* C30: once the process serves, the database is initialised and stays so;
\* ensure_schema run again at a later start on an initialised database
\* leaves the three tables as they are; and in any run of it a table that has
\* rows keeps exactly its rows and every key of system_config keeps its value.
C30_EnsureSchemaIdempotent ==
    /\ [](pc = "serving" => Initialised)
    /\ [][StartupStep =>
            /\ Initialised =>
                  UNCHANGED <<tb_meeting, tb_scenario, system_config>>
            /\ tb_meeting # <<>> => tb_meeting' = tb_meeting
            /\ tb_scenario # <<>> => tb_scenario' = tb_scenario
            /\ \A k \in DOMAIN system_config :
                  /\ k \in DOMAIN system_config'
                  /\ system_config'[k] = system_config[k]
            /\ DOMAIN system_config' \ DOMAIN system_config
                  \subseteq DOMAIN default_configs]_vars

\* a restarted process about to run ensure_schema on a database that holds a
\* saved session, a saved scenario and saved free texts, on a later day
C30_Witness ==
    /\ pc = "startup"
    /\ Initialised
    /\ today = ClockLater
    /\ \E i \in 1..Len(tb_meeting) : tb_meeting[i].lavrador # <<>>
    /\ \E i \in 1..Len(tb_scenario) : tb_scenario[i].text # <<>>
    /\ "current_item2" \in DOMAIN system_config

---------------------------------------------------------------------------
(* C25 - C28: the registry of viewers                                      *)

Registered(websocket) ==
    \/ websocket \in DOMAIN user_sessions
    \/ \E u \in DOMAIN active_connections : websocket \in active_connections[u]

\* the handler of the socket has returned or has been ended by an exception
Ended(websocket) == ws[websocket].at \in {"closed", "failed"}

\* C25: a socket whose handler has ended, for whatever reason, is in neither
\* map of the registry.
C25_EndedSocketUnregistered ==
    \A websocket \in Sockets : Ended(websocket) => ~Registered(websocket)

\* C26: no broadcast is ever ended by the error that an iterator raises when
\* the dict or the set it iterates has changed its size since the iterator
\* was made.
C26_NoChangedDuringIteration ==
    \A c \in Coroutines : broadcasts[c].state # "error"

\* the two maps hold the same pairs, no user id has an empty set, and the
\* number api_status reports as active_users is the number of user ids with
\* a socket whose handler has not ended
MapsAgree ==
    /\ \A u \in DOMAIN active_connections :
          \A websocket \in active_connections[u] :
              websocket \in DOMAIN user_sessions /\ user_sessions[websocket] = u
    /\ \A websocket \in DOMAIN user_sessions :
          /\ user_sessions[websocket] \in DOMAIN active_connections
          /\ websocket \in active_connections[user_sessions[websocket]]
    /\ \A u \in DOMAIN active_connections : active_connections[u] # {}

ActiveUsersAreOpen ==
    Cardinality(DOMAIN active_connections) =
        Cardinality({ws[websocket].user :
                        websocket \in {t \in Sockets : CanSend(t)}})

\* C27: after every step that registers or removes a socket, the two maps
\* agree, each registered socket is under one user id, no user id has an
\* empty set, and the active users count is the number of user ids with at
\* least one open socket.
C27_RegistryMapsAgree ==
    [][(\/ active_connections' # active_connections
        \/ user_sessions' # user_sessions) =>
            (MapsAgree /\ ActiveUsersAreOpen)']_vars

\* C28: a broadcast of an update message sends to no socket of the excluded
\* user id; and when it is over, ended or returned, it has sent (with or
\* without success) to every socket that was registered under another user id
\* when it began and still is.
C28_ForwardedToOthers ==
    /\ [](\A c \in Coroutines :
            LET it == broadcasts[c]
            IN  /\ (it.state = "send" /\ it.exclude # "") =>
                       ws[it.target].user # it.exclude
                /\ (it.state = "error" /\ it.msg.type # "user_status") =>
                       it.pending \cap DOMAIN user_sessions = {})
    /\ [][\A c \in Coroutines :
            (/\ broadcasts[c].state = "send"
             /\ broadcasts[c].msg.type # "user_status"
             /\ broadcasts'[c].state = "idle") =>
                (broadcasts[c].pending \ {broadcasts[c].target})
                    \cap DOMAIN user_sessions' = {}]_vars

---------------------------------------------------------------------------
(* C29                                                                     *)

\* nothing that is saved changes in the step
NothingSaved == UNCHANGED <<tb_meeting, tb_scenario, system_config, config>>

\* the step leaves the session record with exactly the submitted fields and
\* the rest as it was
MeetingApplied(numero, ano, data, hora, local, lavrador) ==
    /\ Len(tb_meeting') = Len(tb_meeting)
    /\ LatestMeeting' =
          <<MeetingRow(LatestMeeting[1].id, numero, ano, data, hora, local, lavrador)>>
    /\ UNCHANGED <<tb_scenario, system_config, config>>

ScenarioApplied(participant, topic, text) ==
    /\ participant \in DOMAIN EntriesOf(tb_scenario')
    /\ EntriesOf(tb_scenario')[participant] = [text |-> text, topic |-> topic]
    /\ \A q \in DOMAIN EntriesOf(tb_scenario) \ {participant} :
          /\ q \in DOMAIN EntriesOf(tb_scenario')
          /\ EntriesOf(tb_scenario')[q] = EntriesOf(tb_scenario)[q]
    /\ UNCHANGED <<tb_meeting, system_config, config>>

\* the step leaves the pairs of new in the table and in the cache, and every
\* other key as it was
ConfigApplied(new) ==
    /\ \A k \in DOMAIN new :
          /\ k \in DOMAIN system_config' /\ system_config'[k] = new[k]
          /\ k \in DOMAIN config' /\ config'[k] = new[k]
    /\ \A k \in (DOMAIN system_config) \ DOMAIN new :
          k \in DOMAIN system_config' /\ system_config'[k] = system_config[k]
    /\ \A k \in (DOMAIN config) \ DOMAIN new :
          k \in DOMAIN config' /\ config'[k] = config[k]
    /\ UNCHANGED <<tb_meeting, tb_scenario>>

\* In the serving process every save request either is answered with success
\* and applies all its fields, or is answered with one of the statuses
\* Rejections and changes nothing that is saved; and the requests with a
\* value outside the limits are among the rejected ones.
SavesAllOrNothing(Rejections) ==
    (pc = "serving" /\ EventLoopFree /\ Len(tasks) < MaxTasks) =>
        /\ \A numero \in SaveNumbers, ano \in SaveYears, local \in SaveLocals :
              LET data == isoformat(date(2025, 1, 15))
                  hora == <<"14:00">>
                  st   == meeting_update_status(numero, ano, data, hora, local, <<>>)
              IN  /\ (\/ numero < 1 \/ numero > 9999 \/ ano < 2020 \/ ano > 2050
                      \/ local = <<>> \/ StrLen(local) > 200) => st # 200
                  /\ IF st = 200
                     THEN ENABLED (/\ meeting_update(numero, ano, data, hora, local, <<>>)
                                   /\ MeetingApplied(numero, ano, data, hora, local, <<>>))
                     ELSE /\ st \in Rejections
                          /\ ~ENABLED (/\ meeting_update(numero, ano, data, hora, local, <<>>)
                                       /\ ~NothingSaved)
        /\ \A topic \in SaveTopics, text \in SaveTexts :
              LET p  == PARTICIPANTES[1]
                  st == scenario_save_status(p, topic, text)
              IN  /\ (topic = <<>> \/ StrLen(text) > 5000) => st # 200
                  /\ IF st = 200
                     THEN ENABLED (scenario_save(p, topic, text)
                                      /\ ScenarioApplied(p, topic, text))
                     ELSE /\ st \in Rejections
                          /\ ~ENABLED (scenario_save(p, topic, text) /\ ~NothingSaved)
        /\ \A item2 \in SaveItems, assuntos \in SaveItems :
              LET st  == preview_update_status(item2, assuntos)
                  new == ("current_item2" :> item2) @@ ("current_assuntos" :> assuntos)
              IN  /\ (StrLen(item2) > 2000 \/ StrLen(assuntos) > 2000) => st # 204
                  /\ IF st = 204
                     THEN ENABLED (preview_update(item2, assuntos) /\ ConfigApplied(new))
                     ELSE /\ st \in Rejections
                          /\ ~ENABLED (preview_update(item2, assuntos) /\ ~NothingSaved)
        /\ \A posicao \in SavePosicoes :
              LET st  == resumo_update_status(<<"1,23%">>, <<"0,15">>, posicao, <<"7,5%">>)
                  new == ("resumo_rentab" :> <<"1,23%">>) @@ ("resumo_difpp" :> <<"0,15">>)
                            @@ ("resumo_posicao" :> posicao)
                            @@ ("resumo_risco" :> <<"7,5%">>)
              IN  /\ posicao \notin {<<"abaixo">>, <<"acima">>} => st # 204
                  /\ IF st = 204
                     THEN ENABLED (/\ resumo_update(<<"1,23%">>, <<"0,15">>, posicao, <<"7,5%">>)
                                   /\ ConfigApplied(new))
                     ELSE /\ st \in Rejections
                          /\ ~ENABLED (/\ resumo_update(<<"1,23%">>, <<"0,15">>, posicao, <<"7,5%">>)
                                       /\ ~NothingSaved)

====
